---- MODULE Spec2Model ----
(***************************************************************************)
(* Moments: the deduplication engine (getSuggestedDuplicates, mergePeople) *)
(* and the reminder scheduler (scheduleCelebrationReminders,               *)
(* scheduleEventReminders, processDueReminders) of                         *)
(* src/server/src/services/dedup.ts, over the relational store of          *)
(* src/server/prisma/seed.ts (tables and foreign keys).                    *)
(*                                                                         *)
(* A handler is modelled at the granularity of its awaits: every await of  *)
(* a store call is a point where another request or the cron job can run.  *)
(***************************************************************************)
EXTENDS Integers, Sequences, FiniteSets, TLC

VARIABLES
  db,        \* the committed store: one field per Prisma model, each a set of rows
  merge,     \* the mergePeople invocation in flight (position, arguments, transaction)
  dup,       \* the last getSuggestedDuplicates response
  ident,     \* the last findMatchingPerson result or POST /identities response
  occ,       \* a getNextOccurrence call: its arguments and, once made, its result
  inv,       \* the invite requests in flight, and the guests created per hour window
  login,     \* the login rate-limit entry of one client IP, and its login requests
  sched,     \* the schedule*Reminders invocation in flight
  proc,      \* the processDueReminders pass in flight
  now,       \* the server clock, in hours
  nextId,    \* the next fresh ScheduledReminder id
  attempts,  \* per ScheduledReminder id, how often it was handed to the Notifier
  notified,  \* the (celebration or event, instant) pairs notified and marked sent so far
  parked     \* a second pass and a second scheduling call, waiting at an await

vars ==
  <<db, merge, dup, ident, occ, inv, login, sched, proc, now, nextId, attempts,
    notified, parked>>

dedupVars == <<merge, dup, ident, occ, inv, login, parked>>
schedVars == <<sched, proc, now, nextId, attempts, notified>>

NULL == "NULL"

Users == {"u1", "u2"}

\* Ids of the Person rows of the model; "Z" is an id no Person row ever has.
PersonIds == {"A", "B", "C", "X"}
GhostPerson == "Z"

Phones == {"p1", "p2"}
Emails == {"e1"}

(***************************************************************************)
(* The store.                                                              *)
(***************************************************************************)
Ids(rows) == {r.id : r \in rows}

PersonRow(id, userId) == [id |-> id, userId |-> userId]

IdentityRow(id, personId, phone, email) ==
  [id |-> id, personId |-> personId, normalizedPhone |-> phone, normalizedEmail |-> email]

\* prisma.<model>.updateMany({ where: { personId: from }, data: { personId: to } })
UpdateManyPersonId(rows, from, to) ==
  {[r EXCEPT !.personId = IF @ = from THEN to ELSE @] : r \in rows}

\* The foreign key <table>_personId_fkey: an updated row must reference a Person.
UpdateManyViolatesFk(d, rows, from, to) ==
  /\ \E r \in rows : r.personId = from
  /\ to \notin Ids(d.person)

\* A delete whose event guests go with the person as the other rows do.
DeletePersonRowDropsGuests(d, pid) ==
  LET gone == {c.id : c \in {c \in d.celebration : c.personId = pid}}
  IN [d EXCEPT
        !.person = {p \in @ : p.id # pid},
        !.identity = {r \in @ : r.personId # pid},
        !.address = {r \in @ : r.personId # pid},
        !.celebration = {r \in @ : r.personId # pid},
        !.scheduledReminder = {r \in @ : r.celebrationId \notin gone},
        !.eventGuest = {r \in @ : r.personId # pid}]

\* prisma.person.delete with the ON DELETE actions of the migration: identities,
\* addresses and celebrations of the person go with it (and the reminders of
\* those celebrations); event guests keep their row with personId NULL.
DeletePersonRow(d, pid) ==
  LET gone == {c.id : c \in {c \in d.celebration : c.personId = pid}}
  IN [d EXCEPT
        !.person = {p \in @ : p.id # pid},
        !.identity = {r \in @ : r.personId # pid},
        !.address = {r \in @ : r.personId # pid},
        !.celebration = {r \in @ : r.personId # pid},
        !.scheduledReminder = {r \in @ : r.celebrationId \notin gone},
        !.eventGuest = UpdateManyPersonId(@, pid, NULL)]

(***************************************************************************)
(* mergePeople (dedup.ts 125-176).                                         *)
(***************************************************************************)
\* prisma.person.findFirst({ where: { id, userId } }) finds a row.
OwnsPersonAnyUser(d, userId, id) == id \in Ids(d.person)

OwnsPerson(d, userId, id) == \E p \in d.person : p.id = id /\ p.userId = userId

\* The five statements of the $transaction array, in order.
MergeStatementSkipsGuests(k, d, p1, p2) ==
  CASE k = 1 -> [d EXCEPT !.identity = UpdateManyPersonId(@, p2, p1)]
    [] k = 2 -> [d EXCEPT !.address = UpdateManyPersonId(@, p2, p1)]
    [] k = 3 -> [d EXCEPT !.celebration = UpdateManyPersonId(@, p2, p1)]
    [] k = 4 -> d
    [] k = 5 -> DeletePersonRow(d, p2)

MergeStatement(k, d, p1, p2) ==
  CASE k = 1 -> [d EXCEPT !.identity = UpdateManyPersonId(@, p2, p1)]
    [] k = 2 -> [d EXCEPT !.address = UpdateManyPersonId(@, p2, p1)]
    [] k = 3 -> [d EXCEPT !.celebration = UpdateManyPersonId(@, p2, p1)]
    [] k = 4 -> [d EXCEPT !.eventGuest = UpdateManyPersonId(@, p2, p1)]
    [] k = 5 -> DeletePersonRow(d, p2)

\* A statement the store rejects: a re-pointed row would reference no Person, or
\* the Person to delete does not exist.
MergeStatementFails(k, d, p1, p2) ==
  CASE k = 1 -> UpdateManyViolatesFk(d, d.identity, p2, p1)
    [] k = 2 -> UpdateManyViolatesFk(d, d.address, p2, p1)
    [] k = 3 -> UpdateManyViolatesFk(d, d.celebration, p2, p1)
    [] k = 4 -> UpdateManyViolatesFk(d, d.eventGuest, p2, p1)
    [] k = 5 -> p2 \notin Ids(d.person)

NumMergeStatements == 5

\* What the committed store shows while a $transaction is open and after it is
\* rolled back: nothing of the transaction's working copy.
WriteThrough(committed, working) == working

Uncommitted(committed, working) == committed

MergeIdle ==
  [pc |-> "idle", userId |-> NULL, person1Id |-> NULL, person2Id |-> NULL,
   step |-> 0, pre |-> NULL, tx |-> NULL]

DupNone == [userId |-> NULL, suggestions |-> <<>>]

InviteIdle ==
  [pc |-> "idle", userId |-> NULL, eventId |-> NULL, personId |-> NULL,
   windowStart |-> 0, seen |-> 0, status |-> 0]

Requests == {1, 2}
Windows == {249, 300}

InvNone == [req |-> [r \in Requests |-> InviteIdle], created |-> [w \in Windows |-> 0]]

\* No entry in ipRateLimits for the client, no request in flight. failed counts
\* the recordFailedLogin calls so far (up to one more than the limit) and
\* lockedAt is the minute a lockout was last started, if any.
NoEntry == [present |-> FALSE, count |-> 0, windowStart |-> 0, lockedUntil |-> 0]

LoginIdle == [pc |-> "idle", valid |-> FALSE, status |-> 0]

NeverLocked == 0 - 1

LoginNone ==
  [entry |-> NoEntry, clock |-> 0, req |-> [r \in Requests |-> LoginIdle],
   failed |-> 0, lockedAt |-> NeverLocked]

OccNone == [originalDate |-> 0, fromDate |-> 0, done |-> FALSE, nextDate |-> 0]

IdentNone ==
  [op |-> "none", status |-> 0, userId |-> NULL, personId |-> NULL,
   phone |-> <<NULL>>, email |-> <<NULL>>, normalized |-> <<NULL>>, result |-> NULL,
   potentialDuplicate |-> NULL]

\* No handler is inside a run of synchronous code or inside the store: every
\* handler in flight waits at an await where others can run. mergePeople waits
\* between the ownership check and the transaction and after the commit (the
\* transaction itself runs isolated in the store, and a rejection reaches the
\* route's reply without another await); schedule*Reminders waits between
\* deleteMany and createMany; processDueReminders waits on the Notifier and on
\* each update.
AtAwait ==
  /\ merge.pc \in {"idle", "checked", "committed"}
  /\ sched.pc \in {"idle", "stored", "deleted"}
  /\ proc.pc \in {"idle", "deliver", "mark"}

\* Lines 132-139: both lookups, and the throw when one finds nothing.
MergeCall(u, p1, p2) ==
  /\ AtAwait
  /\ merge.pc = "idle"
  /\ merge' = [MergeIdle EXCEPT
                 !.pc = IF OwnsPerson(db, u, p1) /\ OwnsPerson(db, u, p2)
                        THEN "checked" ELSE "notfound",
                 !.userId = u, !.person1Id = p1, !.person2Id = p2]
  /\ dup' = DupNone
  /\ UNCHANGED <<db, ident, occ, inv, login, parked, schedVars>>

\* Line 142: the transaction opens on the store as it is now.
MergeBegin ==
  /\ AtAwait
  /\ merge.pc = "checked"
  /\ merge' = [merge EXCEPT !.pc = "tx", !.step = 0, !.pre = db, !.tx = db]
  /\ dup' = DupNone
  /\ UNCHANGED <<db, ident, occ, inv, login, parked, schedVars>>

\* Lines 144-164: the next statement of the array runs inside the transaction;
\* a statement the store rejects aborts the transaction.
MergeStmt ==
  /\ merge.pc = "tx"
  /\ merge.step < NumMergeStatements
  /\ LET k == merge.step + 1
         p1 == merge.person1Id
         p2 == merge.person2Id
     IN IF MergeStatementFails(k, merge.tx, p1, p2)
        THEN /\ merge' = [merge EXCEPT !.pc = "aborted"]
             /\ db' = Uncommitted(db, merge.tx)
        ELSE /\ merge' = [merge EXCEPT !.step = k, !.tx = MergeStatement(k, @, p1, p2)]
             /\ db' = Uncommitted(db, merge'.tx)
  /\ dup' = DupNone
  /\ UNCHANGED <<ident, occ, inv, login, parked, schedVars>>

\* A store-level abort (connection loss, timeout, injected fault) before, between
\* or after the statements: the transaction is rolled back.
MergeAbort ==
  /\ merge.pc = "tx"
  /\ merge' = [merge EXCEPT !.pc = "aborted"]
  /\ db' = Uncommitted(db, merge.tx)
  /\ dup' = DupNone
  /\ UNCHANGED <<ident, occ, inv, login, parked, schedVars>>

\* Line 165: all five statements ran; the working copy becomes the store.
MergeCommit ==
  /\ merge.pc = "tx"
  /\ merge.step = NumMergeStatements
  /\ merge' = [merge EXCEPT !.pc = "committed"]
  /\ db' = merge.tx
  /\ dup' = DupNone
  /\ UNCHANGED <<ident, occ, inv, login, parked, schedVars>>

\* Lines 168-175: findUniqueOrThrow on the survivor, then the route replies.
MergeReturn ==
  /\ AtAwait
  /\ merge.pc = "committed"
  /\ merge' = MergeIdle
  /\ dup' = DupNone
  /\ UNCHANGED <<db, ident, occ, inv, login, parked, schedVars>>

\* The route's catch (people routes POST /merge): reply 400 with the message.
MergeRespond ==
  /\ merge.pc \in {"notfound", "aborted"}
  /\ merge' = MergeIdle
  /\ dup' = DupNone
  /\ UNCHANGED <<db, ident, occ, inv, login, parked, schedVars>>

\* people routes DELETE /:id: ownership lookup, then prisma.person.delete.
DeletePerson(u, pid) ==
  /\ AtAwait
  /\ OwnsPerson(db, u, pid)
  /\ db' = DeletePersonRow(db, pid)
  /\ dup' = DupNone
  /\ UNCHANGED <<merge, ident, occ, inv, login, parked, schedVars>>

(***************************************************************************)
(* getSuggestedDuplicates (dedup.ts 46-119).                               *)
(***************************************************************************)
\* A set of rows with integer ids as the sequence findMany returns: by id.
RowsById(rows) ==
  [k \in 1..Cardinality(rows) |->
     CHOOSE r \in rows : Cardinality({q \in rows : q.id < r.id}) = k - 1]

\* Lines 51-54 and 63-64: the (person, identity) visits of the two nested loops.
\* `order` is the sequence of the user's person ids as findMany returned them.
RECURSIVE Visits(_, _)
Visits(d, order) ==
  IF order = <<>> THEN <<>>
  ELSE LET pid == Head(order)
           own == RowsById({i \in d.identity : i.personId = pid})
       IN [n \in 1..Len(own) |-> [person |-> pid, identity |-> own[n]]]
          \o Visits(d, Tail(order))

\* The keys of phoneMap / emailMap in insertion order (a JS Map iterates so).
RECURSIVE MapKeys(_, _, _)
MapKeys(visits, field, seen) ==
  IF visits = <<>> THEN <<>>
  ELSE LET v == Head(visits).identity[field]
       IN IF v = NULL \/ v \in seen
          THEN MapKeys(Tail(visits), field, seen)
          ELSE <<v>> \o MapKeys(Tail(visits), field, seen \cup {v})

\* map.get(key): the persons pushed under the key, one entry per identity.
RECURSIVE MapGet(_, _, _)
MapGet(visits, field, key) ==
  IF visits = <<>> THEN <<>>
  ELSE (IF Head(visits).identity[field] = key THEN <<Head(visits).person>> ELSE <<>>)
       \o MapGet(Tail(visits), field, key)

\* [a, b].sort().join('-'): the same key for (a, b) and (b, a).
PairKey(a, b) == {a, b}

\* Lines 81-94 / 101-114: the i < j double loop over one key's list, from index
\* pair (i, j) on; acc is [seen |-> seenPairs, out |-> suggestions].
RECURSIVE ScanPairs(_, _, _, _, _, _)
ScanPairs(list, i, j, matchType, matchValue, acc) ==
  IF i > Len(list) THEN acc
  ELSE IF j > Len(list) THEN ScanPairs(list, i + 1, i + 2, matchType, matchValue, acc)
  ELSE LET key == PairKey(list[i], list[j])
           next == IF key \in acc.seen THEN acc
                   ELSE [seen |-> acc.seen \cup {key},
                         out |-> Append(acc.out,
                                   [person1 |-> list[i], person2 |-> list[j],
                                    matchType |-> matchType, matchValue |-> matchValue])]
       IN ScanPairs(list, i, j + 1, matchType, matchValue, next)

\* Lines 79-80 / 99-100: the loop over a map's entries; lists shorter than 2 are skipped.
RECURSIVE ScanMap(_, _, _, _, _)
ScanMap(visits, field, matchType, keys, acc) ==
  IF keys = <<>> THEN acc
  ELSE LET list == MapGet(visits, field, Head(keys))
           next == IF Len(list) >= 2
                   THEN ScanPairs(list, 1, 2, matchType, Head(keys), acc)
                   ELSE acc
       IN ScanMap(visits, field, matchType, Tail(keys), next)

\* The same with a seenPairs set of its own for each map.
getSuggestedDuplicatesSetPerMap(d, order) ==
  LET visits == Visits(d, order)
      byPhone == ScanMap(visits, "normalizedPhone", "phone",
                         MapKeys(visits, "normalizedPhone", {}),
                         [seen |-> {}, out |-> <<>>])
      byEmail == ScanMap(visits, "normalizedEmail", "email",
                         MapKeys(visits, "normalizedEmail", {}),
                         [seen |-> {}, out |-> byPhone.out])
  IN byEmail.out

\* The whole function: the phone map is scanned first, then the email map, with
\* one seenPairs set for both.
getSuggestedDuplicates(d, order) ==
  LET visits == Visits(d, order)
      byPhone == ScanMap(visits, "normalizedPhone", "phone",
                         MapKeys(visits, "normalizedPhone", {}),
                         [seen |-> {}, out |-> <<>>])
      byEmail == ScanMap(visits, "normalizedEmail", "email",
                         MapKeys(visits, "normalizedEmail", {}), byPhone)
  IN byEmail.out

\* The same without the where clause: the people of every user.
PeopleOrdersAllUsers(d, u) ==
  LET all == {p.id : p \in d.person}
  IN {s \in [1..Cardinality(all) -> all] : \A a, b \in DOMAIN s : a # b => s[a] # s[b]}

\* The orders findMany({ where: { userId } }) can return the user's people in.
PeopleOrders(d, u) ==
  LET mine == {p.id : p \in {p \in d.person : p.userId = u}}
  IN {s \in [1..Cardinality(mine) -> mine] : \A a, b \in DOMAIN s : a # b => s[a] # s[b]}

\* people routes GET /duplicates.
GetSuggestedDuplicates(u) ==
  /\ AtAwait
  /\ \E order \in PeopleOrders(db, u) :
       dup' = [userId |-> u, suggestions |-> getSuggestedDuplicates(db, order)]
  /\ UNCHANGED <<db, merge, ident, occ, inv, login, parked, schedVars>>

(***************************************************************************)
(* The reminder scheduler (dedup.ts 178-332).                              *)
(* Instants are whole hours of server-local time since day 0, 00:00.       *)
(***************************************************************************)
HoursPerDay == 24
ReminderHour == 9

DayOf(t) == t \div HoursPerDay

\* A date moved back by whole days, its time of day kept (setDate alone).
KeepTimeOnDayMinus(date, daysBefore) == date - daysBefore * HoursPerDay

\* new Date(date); setDate(getDate() - daysBefore); setHours(9, 0, 0, 0)
NineOnDayMinus(date, daysBefore) == (DayOf(date) - daysBefore) * HoursPerDay + ReminderHour

ReminderRow(id, userId, celebrationId, eventId, scheduledFor) ==
  [id |-> id, userId |-> userId, celebrationId |-> celebrationId, eventId |-> eventId,
   scheduledFor |-> scheduledFor, sent |-> FALSE, sentAt |-> NULL]

\* Lines 197-207: the rows createMany is given, one per offset; ids are fresh.
CelebrationReminders(firstId, userId, celebrationId, date, offsets) ==
  {ReminderRow(firstId + n - 1, userId, celebrationId, NULL,
               NineOnDayMinus(date, offsets[n])) : n \in 1..Len(offsets)}

\* Both rows computed on one Date object: the hour before the 09:00 of the day
\* before, twice.
EventRemindersSharedDate(firstId, userId, eventId, datetime) ==
  {ReminderRow(firstId, userId, NULL, eventId, NineOnDayMinus(datetime, 1) - 1),
   ReminderRow(firstId + 1, userId, NULL, eventId, NineOnDayMinus(datetime, 1) - 1)}

\* Lines 229-240: the day before at 09:00, and one hour before.
EventReminders(firstId, userId, eventId, datetime) ==
  {ReminderRow(firstId, userId, NULL, eventId, NineOnDayMinus(datetime, 1)),
   ReminderRow(firstId + 1, userId, NULL, eventId, datetime - 1)}

RemindersOfCelebration(d, c) == {r \in d.scheduledReminder : r.celebrationId = c}
RemindersOfEvent(d, e) == {r \in d.scheduledReminder : r.eventId = e}

RemindersOfParent(d, kind, parent) ==
  IF kind = "celebration" THEN RemindersOfCelebration(d, parent)
  ELSE RemindersOfEvent(d, parent)

ParentIds(d, kind) == IF kind = "celebration" THEN Ids(d.celebration) ELSE Ids(d.event)

\* The user the routes pass: the owner of the celebration's person, the event's host.
CelebrationOwner(d, c) ==
  LET cel == CHOOSE x \in d.celebration : x.id = c
  IN (CHOOSE p \in d.person : p.id = cel.personId).userId

EventHost(d, e) == (CHOOSE x \in d.event : x.id = e).hostUserId

SchedIdle ==
  [pc |-> "idle", kind |-> NULL, userId |-> NULL, parent |-> NULL, date |-> 0,
   offsets |-> <<>>, old |-> {}]

\* outcome is what became of the delivery of reminder `handled`, the one the pass
\* dealt with last.
ProcIdle ==
  [pc |-> "idle", now |-> 0, loaded |-> {}, batch |-> <<>>, i |-> 0, count |-> 0,
   outcome |-> "none", handled |-> 0]

\* No second pass and no second scheduling call is waiting.
ParkedNone == [proc |-> ProcIdle, sched |-> SchedIdle]

\* The instants a celebration or an event is scheduled against, the offset
\* arrays passed, and the instants at which the clock is read.
Dates == {255, 288}
OffsetLists == {<<7, 1, 0>>, <<3, 0>>, <<>>}
EventTimes == {258, 264}
ClockStops == {81, 225, 249, 300}

\* Ids 1..MaxReminderIds are all the ScheduledReminder ids a run creates.
MaxReminderIds == 5

\* scheduleCelebrationReminders up to its second await (lines 190-194): the
\* deleteMany has run.
ScheduleCelebrationCall(c, date, offsets) ==
  /\ AtAwait
  /\ sched.pc = "idle"
  /\ c \in Ids(db.celebration)
  /\ nextId + Len(offsets) - 1 <= MaxReminderIds
  /\ sched' = [pc |-> "deleted", kind |-> "celebration",
               userId |-> CelebrationOwner(db, c), parent |-> c, date |-> date,
               offsets |-> offsets, old |-> RemindersOfCelebration(db, c)]
  /\ db' = [db EXCEPT !.scheduledReminder = @ \ RemindersOfCelebration(db, c)]
  /\ UNCHANGED <<dedupVars, proc, now, nextId, attempts, notified>>

\* scheduleEventReminders up to its second await (lines 222-226).
ScheduleEventCall(e, datetime) ==
  /\ AtAwait
  /\ sched.pc = "idle"
  /\ e \in Ids(db.event)
  /\ nextId + 1 <= MaxReminderIds
  /\ sched' = [pc |-> "deleted", kind |-> "event", userId |-> EventHost(db, e),
               parent |-> e, date |-> datetime, offsets |-> <<>>,
               old |-> RemindersOfEvent(db, e)]
  /\ db' = [db EXCEPT !.scheduledReminder = @ \ RemindersOfEvent(db, e)]
  /\ UNCHANGED <<dedupVars, proc, now, nextId, attempts, notified>>

\* The rows the pending createMany inserts.
NewReminders ==
  IF sched.kind = "celebration"
  THEN CelebrationReminders(nextId, sched.userId, sched.parent, sched.date, sched.offsets)
  ELSE EventReminders(nextId, sched.userId, sched.parent, sched.date)

\* Lines 209-211 / 236-241: createMany inserts the rows, unless the parent is gone
\* by now (foreign key), and the function returns.
ScheduleCreate ==
  /\ AtAwait
  /\ sched.pc = "deleted"
  /\ IF sched.parent \in ParentIds(db, sched.kind)
     THEN /\ db' = [db EXCEPT !.scheduledReminder = @ \cup NewReminders]
          /\ nextId' = nextId + Cardinality(NewReminders)
          /\ sched' = [sched EXCEPT !.pc = "done"]
     ELSE /\ sched' = [sched EXCEPT !.pc = "failed"]
          /\ UNCHANGED <<db, nextId>>
  /\ UNCHANGED <<dedupVars, proc, now, attempts, notified>>

\* The store fails the createMany (or the process stops after the deleteMany).
ScheduleCreateFails ==
  /\ AtAwait
  /\ sched.pc = "deleted"
  /\ sched' = [sched EXCEPT !.pc = "failed"]
  /\ UNCHANGED <<db, dedupVars, proc, now, nextId, attempts, notified>>

\* The route replies (201/200, or 500 through the error handler).
ScheduleReturn ==
  /\ sched.pc \in {"done", "failed", "rejected"}
  /\ sched' = SchedIdle
  /\ UNCHANGED <<db, dedupVars, proc, now, nextId, attempts, notified>>

(***************************************************************************)
(* The celebration routes (POST / and PUT /:id), which store the           *)
(* celebration and then call scheduleCelebrationReminders.                 *)
(***************************************************************************)
CelebrationRow(id, personId, type, date, recurringRule, reminderOffsets) ==
  [id |-> id, personId |-> personId, type |-> type, date |-> date,
   recurringRule |-> recurringRule, reminderOffsets |-> reminderOffsets]

CelebrationTypes == {"BIRTHDAY", "ANNIVERSARY", "LIFE_EVENT"}
Rules == {"FREQ=YEARLY"}

\* z.array(z.number()).default([7, 1, 0])
DefaultOffsets == <<7, 1, 0>>

\* The fields of a request body the routes read; `has` holds the names of the
\* fields the request supplies, and a field that is not supplied has the first
\* value of its kind.
BodyFields == {"type", "title", "date", "recurringRule", "reminderOffsets"}

Bodies ==
  {[has |-> h,
    type |-> IF "type" \in h THEN t ELSE "BIRTHDAY",
    date |-> IF "date" \in h THEN d ELSE 255,
    recurringRule |-> IF "recurringRule" \in h THEN r ELSE "FREQ=YEARLY",
    reminderOffsets |-> IF "reminderOffsets" \in h THEN o ELSE DefaultOffsets] :
     h \in SUBSET BodyFields, t \in CelebrationTypes, d \in Dates, r \in Rules,
     o \in OffsetLists}

\* createCelebrationSchema: personId, type and date are required.
PostBodies == {b \in Bodies : {"type", "date"} \subseteq b.has}

\* updateCelebrationSchema: every field is optional, and the default of
\* reminderOffsets is not applied to a field that is not supplied.
PutBodies == {b \in Bodies : "title" \notin b.has}

\* POST / lines 172-176: recurringRule = body.recurringRule, and for a birthday
\* or an anniversary recurringRule || 'FREQ=YEARLY'.
RuleOnCreate(body) ==
  IF "recurringRule" \in body.has THEN body.recurringRule
  ELSE IF body.type \in {"BIRTHDAY", "ANNIVERSARY"} THEN "FREQ=YEARLY" ELSE NULL

\* PUT /:id lines 216-219: prisma.celebration.update({ data: body }) writes the
\* supplied fields and leaves the others.
ApplyBody(row, body) ==
  [row EXCEPT
     !.type = IF "type" \in body.has THEN body.type ELSE @,
     !.date = IF "date" \in body.has THEN body.date ELSE @,
     !.recurringRule = IF "recurringRule" \in body.has THEN body.recurringRule ELSE @,
     !.reminderOffsets = IF "reminderOffsets" \in body.has THEN body.reminderOffsets ELSE @]

\* A test on the date alone.
ReschedulesOnDateOnly(body) == "date" \in body.has

\* Line 223: if (body.date || body.reminderOffsets); a Date and an array, also
\* an empty one, are truthy.
Reschedules(body) == "date" \in body.has \/ "reminderOffsets" \in body.has

NewCelebrationId == "c3"

\* POST /: validation, the ownership lookup of the person and the create (lines
\* 152-187), up to the call of scheduleCelebrationReminders.
PostCelebration(u, pid, body) ==
  /\ AtAwait
  /\ sched.pc = "idle"
  /\ ~(body.type = "LIFE_EVENT" /\ "title" \notin body.has)
  /\ OwnsPerson(db, u, pid)
  /\ NewCelebrationId \notin Ids(db.celebration)
  /\ nextId + Len(body.reminderOffsets) - 1 <= MaxReminderIds
  /\ db' = [db EXCEPT !.celebration = @ \cup
                {CelebrationRow(NewCelebrationId, pid, body.type, body.date,
                                RuleOnCreate(body), body.reminderOffsets)}]
  /\ sched' = [SchedIdle EXCEPT !.pc = "stored", !.kind = "celebration",
                 !.userId = u, !.parent = NewCelebrationId,
                 !.date = body.date, !.offsets = body.reminderOffsets]
  /\ UNCHANGED <<dedupVars, proc, now, nextId, attempts, notified>>

\* POST / lines 155-170: 400 for a life event without a title, 404 for a person
\* that is not the user's; nothing is written.
PostCelebrationRejected(u, pid, body) ==
  /\ AtAwait
  /\ sched.pc = "idle"
  /\ (body.type = "LIFE_EVENT" /\ "title" \notin body.has) \/ ~OwnsPerson(db, u, pid)
  /\ sched' = [SchedIdle EXCEPT !.pc = "rejected"]
  /\ UNCHANGED <<db, dedupVars, proc, now, nextId, attempts, notified>>

\* PUT /:id: the ownership lookup and the update (lines 202-220), up to the call
\* of scheduleCelebrationReminders, which is made with the updated row's date
\* and offsets only when the body has a date or offsets (lines 222-231).
PutCelebration(u, c, body) ==
  /\ AtAwait
  /\ sched.pc = "idle"
  /\ c \in Ids(db.celebration)
  /\ CelebrationOwner(db, c) = u
  /\ LET row == CHOOSE x \in db.celebration : x.id = c
         updated == ApplyBody(row, body)
     IN /\ Reschedules(body) =>
             nextId + Len(updated.reminderOffsets) - 1 <= MaxReminderIds
        /\ db' = [db EXCEPT !.celebration = (@ \ {row}) \cup {updated}]
        /\ sched' = [SchedIdle EXCEPT
                       !.pc = IF Reschedules(body) THEN "stored" ELSE "done",
                       !.kind = "celebration", !.userId = u, !.parent = c,
                       !.date = updated.date, !.offsets = updated.reminderOffsets]
  /\ UNCHANGED <<dedupVars, proc, now, nextId, attempts, notified>>

\* PUT /:id lines 206-214: 404 when the celebration is not one of the user's
\* persons'; nothing is written.
PutCelebrationNotFound(u, c) ==
  /\ AtAwait
  /\ sched.pc = "idle"
  /\ ~(c \in Ids(db.celebration) /\ CelebrationOwner(db, c) = u)
  /\ sched' = [SchedIdle EXCEPT !.pc = "rejected"]
  /\ UNCHANGED <<db, dedupVars, proc, now, nextId, attempts, notified>>

\* scheduleCelebrationReminders as the routes call it, up to its second await
\* (dedup.ts 190-194): the deleteMany has run.
ScheduleDelete ==
  /\ AtAwait
  /\ sched.pc = "stored"
  /\ sched' = [sched EXCEPT !.pc = "deleted",
                            !.old = RemindersOfCelebration(db, sched.parent)]
  /\ db' = [db EXCEPT !.scheduledReminder = @ \ RemindersOfCelebration(db, sched.parent)]
  /\ UNCHANGED <<dedupVars, proc, now, nextId, attempts, notified>>

(***************************************************************************)
(* processDueReminders (dedup.ts 268-332) and the Notifier (push service). *)
(***************************************************************************)
Take == 100

UserRow(d, u) == CHOOSE x \in d.user : x.id = u

\* The test on pushEnabled alone.
PushEnabledOnly(userRow) == userRow.pushEnabled

\* reminder.user.pushEnabled && reminder.user.pushToken
PushReady(userRow) == userRow.pushEnabled /\ userRow.pushToken # NULL

\* Lines 272-283: where sent = false and scheduledFor <= now.
DueAlsoSent(d, t) == {r \in d.scheduledReminder : r.scheduledFor <= t}

Due(d, t) == {r \in d.scheduledReminder : ~r.sent /\ r.scheduledFor <= t}

\* The subsets of k rows of a table.
RECURSIVE KSubsets(_, _)
KSubsets(rows, k) ==
  IF k = 0 THEN {{}}
  ELSE UNION {{ {x} \cup rest : rest \in KSubsets({y \in rows : y.id > x.id}, k - 1)} :
              x \in rows}

\* take: 100 on a query with no orderBy: all the rows when there are at most
\* 100, and otherwise whichever 100 of them the store returns.
Selections(rows) ==
  IF Cardinality(rows) <= Take
  THEN {rows}
  ELSE {rows \ out : out \in KSubsets(rows, Cardinality(rows) - Take)}

\* The rows the query returned, with the user row joined as it is at load time.
LoadBatch(d, chosen) ==
  LET rows == RowsById(chosen)
  IN [k \in 1..Len(rows) |-> [id |-> rows[k].id, userId |-> rows[k].userId,
                              parent |-> IF rows[k].celebrationId # NULL
                                         THEN rows[k].celebrationId ELSE rows[k].eventId,
                              scheduledFor |-> rows[k].scheduledFor,
                              pushReady |-> PushReady(UserRow(d, rows[k].userId))]]

PcFor(entry) == IF entry.pushReady THEN "deliver" ELSE "mark"

\* Lines 269-283: the clock is read and the query picks its rows.
ProcessStart ==
  /\ AtAwait
  /\ proc.pc = "idle"
  /\ \E chosen \in Selections(Due(db, now)) :
       proc' = [ProcIdle EXCEPT !.pc = "loading", !.now = now, !.loaded = chosen]
  /\ UNCHANGED <<db, dedupVars, sched, now, nextId, attempts, notified>>

\* Lines 277-285: the rows come back with their user joined, processedCount is
\* 0 and the loop is entered (or skipped when there is no row).
ProcessLoad ==
  /\ proc.pc = "loading"
  /\ LET batch == LoadBatch(db, proc.loaded)
     IN proc' = IF proc.loaded = {}
                THEN [proc EXCEPT !.pc = "done"]
                ELSE [proc EXCEPT !.pc = PcFor(batch[1]), !.loaded = {},
                                  !.batch = batch, !.i = 1]
  /\ UNCHANGED <<db, dedupVars, sched, now, nextId, attempts, notified>>

\* What sendPushNotification can report once it has a recipient: a ticket, an
\* error ticket or a thrown send (both false), or DeviceNotRegistered, which
\* also removes the token.
SendOutcomes == {"ok", "error", "unregistered"}

\* attempts counts the times a reminder was handed to the Notifier, up to
\* MaxAttempts.
MaxAttempts == 2

\* Lines 299-301 / 314-316: the reminder is handed to the Notifier, which reads
\* the user again and gives up without sending when the user has no token or has
\* push disabled by now.
ProcessDeliver ==
  /\ AtAwait
  /\ proc.pc = "deliver"
  /\ LET entry == proc.batch[proc.i]
         user == UserRow(db, entry.userId)
     IN /\ attempts' = [attempts EXCEPT ![entry.id] = IF @ < MaxAttempts THEN @ + 1 ELSE @]
        /\ IF ~PushReady(user)
           THEN /\ proc' = [proc EXCEPT !.pc = "mark", !.outcome = "norecipient",
                                             !.handled = entry.id]
                /\ UNCHANGED db
           ELSE \E o \in SendOutcomes :
                  /\ proc' = [proc EXCEPT !.pc = "mark", !.outcome = o,
                                               !.handled = entry.id]
                  /\ db' = IF o = "unregistered"
                           THEN [db EXCEPT !.user =
                                   (@ \ {user}) \cup {[user EXCEPT !.pushToken = NULL]}]
                           ELSE db
  /\ UNCHANGED <<dedupVars, sched, now, nextId, notified>>

\* Lines 319-323 follow the delivery whatever it reported: the update is run for
\* every outcome.
MarksOnlyDelivered(outcome) == outcome \in {"ok", "notcalled"}

MarksAfter(outcome) == TRUE

\* An updateMany without the id: every unsent row is marked.
MarkSentAll(d, id, t) ==
  [d EXCEPT !.scheduledReminder =
     {IF ~r.sent THEN [r EXCEPT !.sent = TRUE, !.sentAt = t] ELSE r : r \in @}]

\* prisma.scheduledReminder.update({ where: { id }, data: { sent: true, sentAt: now } })
MarkSent(d, id, t) ==
  [d EXCEPT !.scheduledReminder =
     {IF r.id = id THEN [r EXCEPT !.sent = TRUE, !.sentAt = t] ELSE r : r \in @}]

\* A loop whose catch rethrows: the pass ends at the first error.
StopOnError(p, threw) ==
  IF threw \/ p.i = Len(p.batch)
  THEN [p EXCEPT !.pc = "done"]
  ELSE [p EXCEPT !.i = @ + 1, !.pc = PcFor(p.batch[p.i + 1])]

\* Lines 287-329: the body of the for loop is one try block whose catch (326-328)
\* logs; thrown or not, the loop goes on with the next reminder of the batch.
ContinueLoop(p, threw) ==
  IF p.i = Len(p.batch)
  THEN [p EXCEPT !.pc = "done"]
  ELSE [p EXCEPT !.i = @ + 1, !.pc = PcFor(p.batch[p.i + 1])]

\* Lines 319-329: the update and the count; an update of a row that is gone
\* throws into the catch, which logs and goes on with the next reminder.
\* notified records the instant of a reminder that went to the Notifier and is
\* now marked sent.
ProcessMark ==
  /\ AtAwait
  /\ proc.pc = "mark"
  /\ LET entry == proc.batch[proc.i]
         outcome == IF entry.pushReady THEN proc.outcome ELSE "notcalled"
         found == entry.id \in Ids(db.scheduledReminder) /\ MarksAfter(outcome)
     IN /\ db' = IF found THEN MarkSent(db, entry.id, proc.now) ELSE db
        /\ proc' = ContinueLoop([proc EXCEPT
                                   !.count = IF found THEN @ + 1 ELSE @,
                                   !.outcome = outcome,
                                   !.handled = entry.id], ~found)
        /\ notified' = IF found /\ entry.pushReady
                        THEN notified \cup {<<entry.parent, entry.scheduledFor>>}
                        ELSE notified
  /\ UNCHANGED <<dedupVars, sched, now, nextId, attempts>>

\* Line 331 and the cron job's log line.
ProcessReturn ==
  /\ proc.pc = "done"
  /\ proc' = ProcIdle
  /\ UNCHANGED <<db, dedupVars, sched, now, nextId, attempts, notified>>

\* Time passes.
Tick(t) ==
  /\ AtAwait
  /\ t > now
  /\ now' = t
  /\ UNCHANGED <<db, dedupVars, sched, proc, nextId, attempts, notified>>

(***************************************************************************)
(* Identities: normalisation (utils/normalize), the encrypting Prisma      *)
(* middleware, findMatchingPerson (dedup.ts 14-40) and POST /identities.   *)
(* Phone numbers and e-mail addresses are sequences of one-character       *)
(* strings here; Null is a null column or a field absent from the body.    *)
(***************************************************************************)
Null == <<NULL>>

\* JavaScript truthiness of a string | null | undefined.
Truthy(v) == v # Null /\ v # <<>>

DigitChars == {"0", "1", "2", "3", "4", "5", "6", "7", "8", "9"}
IsDigit(c) == c \in DigitChars

\* phone.replace(/\D/g, '')
Digits(phone) == SelectSeq(phone, IsDigit)

\* normalizePhone without the ten-digit case.
normalizePhoneNoCountry(phone) == <<"+">> \o Digits(phone)

normalizePhone(phone) ==
  LET digits == Digits(phone)
  IN IF Len(digits) = 10 THEN <<"+", "1">> \o digits
     ELSE IF Len(digits) = 11 /\ digits[1] = "1" THEN <<"+">> \o digits
     ELSE IF Len(digits) > 10 THEN <<"+">> \o digits
     ELSE <<"+">> \o digits

\* A call of normalizePhone on the string drawn by the initial state.
NormalizePhone ==
  /\ ident.op = "none"
  /\ ident' = [ident EXCEPT !.op = "normalize", !.normalized = normalizePhone(ident.phone)]
  /\ UNCHANGED <<db, merge, dup, occ, inv, login, parked, schedVars>>

isValidPhone(phone) == Len(Digits(phone)) >= 10 /\ Len(Digits(phone)) <= 15

UpperChars == <<"A", "B", "C", "D", "E", "F", "G", "H", "I", "J", "K", "L", "M",
                "N", "O", "P", "Q", "R", "S", "T", "U", "V", "W", "X", "Y", "Z">>
LowerChars == <<"a", "b", "c", "d", "e", "f", "g", "h", "i", "j", "k", "l", "m",
                "n", "o", "p", "q", "r", "s", "t", "u", "v", "w", "x", "y", "z">>

ToLowerChar(c) ==
  IF \E i \in DOMAIN UpperChars : UpperChars[i] = c
  THEN LowerChars[CHOOSE i \in DOMAIN UpperChars : UpperChars[i] = c]
  ELSE c

toLowerCase(str) == [i \in DOMAIN str |-> ToLowerChar(str[i])]

trim(str) ==
  LET kept == {i \in DOMAIN str : str[i] # " "}
  IN IF kept = {} THEN <<>>
     ELSE SubSeq(str, CHOOSE i \in kept : \A j \in kept : i <= j,
                      CHOOSE i \in kept : \A j \in kept : i >= j)

normalizeEmail(email) == trim(toLowerCase(email))

\* /^[^\s@]+@[^\s@]+\.[^\s@]+$/
isValidEmail(email) ==
  \E i, j \in DOMAIN email :
    /\ email[i] = "@" /\ email[j] = "."
    /\ 1 < i /\ i + 1 < j /\ j < Len(email)
    /\ \A k \in DOMAIN email : k # i => email[k] \notin {" ", "@"}

\* CryptoJS.AES.encrypt(value, key).toString(): the OpenSSL format, "Salted__"
\* and a fresh random salt before the ciphertext ("U2FsdGVkX1" in base64).
Salts == {"s1", "s2"}
Encrypt(value, salt) == <<"U2FsdGVkX1", salt>> \o value

\* The write half of the middleware: data[field] is encrypted when it is a
\* non-empty string; a where clause is passed on as it is.
EncryptOnWrite(value, salt) == IF Truthy(value) THEN Encrypt(value, salt) ELSE value

\* What identity.create of the route stores in normalizedPhone.
Stored(value, salt) == EncryptOnWrite(value, salt)

\* The rows a query on every user's identities sees.
IdentitiesOfAnyUser(d, userId) == d.identity

\* where: { person: { userId } }
IdentitiesOf(d, userId) == {r \in d.identity : OwnsPerson(d, userId, r.personId)}

\* The rows findFirst can return (no orderBy: any row the where clause admits).
MatchingIdentities(d, userId, normalizedPhone, normalizedEmail) ==
  {r \in IdentitiesOf(d, userId) :
     \/ Truthy(normalizedPhone) /\ r.normalizedPhone = normalizedPhone
     \/ Truthy(normalizedEmail) /\ r.normalizedEmail = normalizedEmail}

\* The persons findMatchingPerson can return; NULL is the null result.
findMatchingPerson(d, userId, phone, email) ==
  LET normalizedPhone == IF Truthy(phone) THEN normalizePhone(phone) ELSE Null
      normalizedEmail == IF Truthy(email) THEN normalizeEmail(email) ELSE Null
      rows == MatchingIdentities(d, userId, normalizedPhone, normalizedEmail)
  IN IF ~Truthy(normalizedPhone) /\ ~Truthy(normalizedEmail) THEN {NULL}
     ELSE IF rows = {} THEN {NULL}
     ELSE {r.personId : r \in rows}

\* A call of findMatchingPerson on the store.
FindMatchingPerson(u, phone, email) ==
  /\ \E m \in findMatchingPerson(db, u, phone, email) :
       ident' = [IdentNone EXCEPT !.op = "find", !.userId = u, !.phone = phone,
                                  !.email = email, !.result = m]
  /\ UNCHANGED <<db, merge, dup, occ, inv, login, parked, schedVars>>

MaxIdentityRows == 5

\* POST /identities answered 201: the person is the user's, the phone and the
\* e-mail address (when given) are valid.
PostIdentity(u, pid, phone, email, salt) ==
  /\ Cardinality(db.identity) < MaxIdentityRows
  /\ OwnsPerson(db, u, pid)
  /\ Truthy(phone) => isValidPhone(phone)
  /\ Truthy(email) => isValidEmail(email)
  /\ LET normalizedPhone == IF Truthy(phone) THEN normalizePhone(phone) ELSE Null
         normalizedEmail == IF Truthy(email) THEN normalizeEmail(email) ELSE Null
         row == IdentityRow(Cardinality(db.identity) + 1, pid,
                            Stored(normalizedPhone, salt), normalizedEmail)
     IN \E m \in findMatchingPerson(db, u, phone, email) :
          /\ db' = [db EXCEPT !.identity = @ \cup {row}]
          /\ ident' = [IdentNone EXCEPT
                         !.op = "post", !.status = 201, !.userId = u, !.personId = pid,
                         !.phone = phone, !.email = email, !.result = m,
                         !.potentialDuplicate = IF m # NULL /\ m # pid THEN m ELSE NULL]
  /\ UNCHANGED <<merge, dup, occ, inv, login, parked, schedVars>>

\* POST /identities answered 404 (not the user's person) or 400 (invalid phone
\* or e-mail address): nothing is stored.
PostIdentityRejected(u, pid, phone, email) ==
  /\ \/ ~OwnsPerson(db, u, pid)
     \/ Truthy(phone) /\ ~isValidPhone(phone)
     \/ Truthy(email) /\ ~isValidEmail(email)
  /\ ident' = [IdentNone EXCEPT
                 !.op = "post", !.status = IF OwnsPerson(db, u, pid) THEN 400 ELSE 404,
                 !.userId = u, !.personId = pid, !.phone = phone, !.email = email]
  /\ UNCHANGED <<db, merge, dup, occ, inv, login, parked, schedVars>>

(***************************************************************************)
(* getNextOccurrence (celebrations routes 289-303). A Date is its number   *)
(* of hours since 2020-01-01 00:00 of server-local time, in the proleptic  *)
(* Gregorian calendar of ECMAScript, without daylight-saving shifts.       *)
(***************************************************************************)
EpochYear == 2020

IsLeap(y) == (y % 4 = 0 /\ y % 100 # 0) \/ y % 400 = 0

\* Days of a common year before the first of each month.
MonthStarts == <<0, 31, 59, 90, 120, 151, 181, 212, 243, 273, 304, 334>>

DaysBeforeYear(y) ==
  (y - EpochYear) * 365 + Cardinality({x \in EpochYear..(y - 1) : IsLeap(x)})

DaysBeforeMonth(y, m) == MonthStarts[m] + (IF m > 2 /\ IsLeap(y) THEN 1 ELSE 0)

\* ECMAScript MakeDay(year, month, date): the day number of the first of the
\* month plus date - 1, whatever the length of the month.
MakeDay(y, m, d) == DaysBeforeYear(y) + DaysBeforeMonth(y, m) + d - 1

LastYear == 2031

getFullYear(t) ==
  CHOOSE y \in EpochYear..LastYear :
    DaysBeforeYear(y) <= (t \div HoursPerDay) /\ (t \div HoursPerDay) < DaysBeforeYear(y + 1)

getMonth(t) ==
  LET y == getFullYear(t)
      n == (t \div HoursPerDay) - DaysBeforeYear(y)
  IN CHOOSE m \in 1..12 :
       /\ DaysBeforeMonth(y, m) <= n
       /\ m < 12 => n < DaysBeforeMonth(y, m + 1)

getDate(t) ==
  (t \div HoursPerDay) - DaysBeforeYear(getFullYear(t))
    - DaysBeforeMonth(getFullYear(t), getMonth(t)) + 1

\* Date.prototype.setFullYear(year): MakeDate(MakeDay(year, month, date), time).
setFullYear(t, y) == MakeDay(y, getMonth(t), getDate(t)) * HoursPerDay + (t % HoursPerDay)

getNextOccurrence(originalDate, fromDate) ==
  LET thisYear == getFullYear(fromDate)
      nextDate == setFullYear(originalDate, thisYear)
  IN IF nextDate < fromDate THEN setFullYear(nextDate, thisYear + 1) ELSE nextDate

\* The call, made on the arguments drawn by the initial state.
GetNextOccurrence ==
  /\ ~occ.done
  /\ occ' = [occ EXCEPT !.done = TRUE,
                        !.nextDate = getNextOccurrence(occ.originalDate, occ.fromDate)]
  /\ UNCHANGED <<db, merge, dup, ident, inv, login, parked, schedVars>>

(***************************************************************************)
(* POST /events/:id/invite (events routes 254-345) behind the preHandler   *)
(* checkInviteRateLimit (rate-limit plugin 122-172). An hour window is the *)
(* hour the clock shows. A guest is invited by personId, or by an e-mail   *)
(* address or phone number no guest or blocked contact of the model holds. *)
(***************************************************************************)
InvitesPerHour == 10

GhostEvent == "e9"
NoLog == 0 - 1

\* findUnique on (userId, 'invite', windowStart): the count, or NoLog.
LogCount(d, u, w) ==
  IF \E l \in d.rateLimitLog : l.userId = u /\ l.windowStart = w
  THEN (CHOOSE l \in d.rateLimitLog : l.userId = u /\ l.windowStart = w).count
  ELSE NoLog

\* log && log.count >= config.rateLimit.invitesPerHour
OverLimit(count) == count >= InvitesPerHour

\* upsert: count + 1 on the row of the window, or a new row with count 1.
UpsertLog(d, u, w) ==
  IF LogCount(d, u, w) = NoLog
  THEN [d EXCEPT !.rateLimitLog =
          @ \cup {[userId |-> u, action |-> "invite", windowStart |-> w, count |-> 1]}]
  ELSE [d EXCEPT !.rateLimitLog =
          {IF l.userId = u /\ l.windowStart = w THEN [l EXCEPT !.count = @ + 1] ELSE l :
             l \in @}]

SetReq(r, rec) == [inv EXCEPT !.req[r] = rec]

\* Lines 130-153 of the plugin: the window, the findUnique and the 429 reply.
InviteCheck(r, u, e, pid) ==
  /\ inv.req[r].pc = "idle"
  /\ now \in Windows
  /\ LET count == LogCount(db, u, now)
     IN inv' = SetReq(r, [InviteIdle EXCEPT
                            !.pc = IF OverLimit(count) THEN "limited" ELSE "passed",
                            !.userId = u, !.eventId = e, !.personId = pid,
                            !.windowStart = now, !.seen = count,
                            !.status = IF OverLimit(count) THEN 429 ELSE 0])
  /\ UNCHANGED <<db, merge, dup, ident, occ, login, parked, schedVars>>

\* Lines 156-171 of the plugin: the upsert; the route handler follows.
InviteUpsert(r) ==
  /\ inv.req[r].pc = "passed"
  /\ db' = UpsertLog(db, inv.req[r].userId, inv.req[r].windowStart)
  /\ inv' = SetReq(r, [inv.req[r] EXCEPT !.pc = "handler"])
  /\ UNCHANGED <<merge, dup, ident, occ, login, parked, schedVars>>

\* The upsert of a request that saw no row, run when another request has
\* created the row meanwhile, can also fail on the unique index (500).
InviteUpsertConflict(r) ==
  /\ inv.req[r].pc = "passed"
  /\ inv.req[r].seen = NoLog
  /\ LogCount(db, inv.req[r].userId, inv.req[r].windowStart) # NoLog
  /\ inv' = SetReq(r, [inv.req[r] EXCEPT !.pc = "replied", !.status = 500])
  /\ UNCHANGED <<db, merge, dup, ident, occ, login, parked, schedVars>>

\* Lines 287-297: a guest of this event with the body's personId.
AlreadyInvited(d, e, pid) ==
  pid # NULL /\ \E g \in d.eventGuest : g.eventId = e /\ g.personId = pid

\* Lines 259-301: the event and the person must be the user's, the guest not
\* invited yet.
InviteVerify(r) ==
  /\ inv.req[r].pc = "handler"
  /\ LET q == inv.req[r]
         status == IF ~\E x \in db.event : x.id = q.eventId /\ x.hostUserId = q.userId
                   THEN 404
                   ELSE IF q.personId # NULL /\ ~OwnsPerson(db, q.userId, q.personId)
                   THEN 404
                   ELSE IF AlreadyInvited(db, q.eventId, q.personId) THEN 400
                   ELSE 0
     IN inv' = SetReq(r, [q EXCEPT !.pc = IF status = 0 THEN "verified" ELSE "replied",
                                   !.status = status])
  /\ UNCHANGED <<db, merge, dup, ident, occ, login, parked, schedVars>>

\* Ids of the EventGuest rows the route creates.
GuestIdSeq == <<"g4", "g5", "g6", "g7", "g8", "g9", "g10", "g11", "g12", "g13", "g14", "g15">>

NumCreated == Cardinality({g \in db.eventGuest : \E k \in DOMAIN GuestIdSeq : GuestIdSeq[k] = g.id})

\* Lines 319-344: eventGuest.create (rejected by the foreign keys when the event
\* or the person is gone) and the 201 reply.
InviteCreate(r) ==
  /\ inv.req[r].pc = "verified"
  /\ NumCreated < Len(GuestIdSeq)
  /\ LET q == inv.req[r]
         ok == /\ q.eventId \in Ids(db.event)
               /\ q.personId = NULL \/ q.personId \in Ids(db.person)
     IN IF ok
        THEN /\ db' = [db EXCEPT !.eventGuest = @ \cup
                         {[id |-> GuestIdSeq[NumCreated + 1], eventId |-> q.eventId,
                           personId |-> q.personId]}]
             /\ inv' = [inv EXCEPT !.req[r] = [q EXCEPT !.pc = "replied", !.status = 201],
                                   !.created[q.windowStart] = @ + 1]
        ELSE /\ inv' = SetReq(r, [q EXCEPT !.pc = "replied", !.status = 500])
             /\ UNCHANGED db
  /\ UNCHANGED <<merge, dup, ident, occ, login, parked, schedVars>>

\* The reply is on its way: 429, 404, 400, 500 or 201.
InviteReturn(r) ==
  /\ inv.req[r].pc \in {"limited", "replied"}
  /\ inv' = SetReq(r, InviteIdle)
  /\ UNCHANGED <<db, merge, dup, ident, occ, login, parked, schedVars>>

(***************************************************************************)
(* Initial stores and specifications.                                      *)
(***************************************************************************)
SeedStore ==
  [user |-> {[id |-> "u1", pushEnabled |-> TRUE, pushToken |-> "t1"],
             [id |-> "u2", pushEnabled |-> FALSE, pushToken |-> "t2"]},
   person |-> {PersonRow("A", "u1"), PersonRow("B", "u1"), PersonRow("C", "u1"),
               PersonRow("X", "u2")},
   identity |-> {IdentityRow(1, "A", "p1", NULL), IdentityRow(2, "B", "p1", NULL),
                 IdentityRow(3, "B", NULL, "e1"), IdentityRow(4, "C", NULL, "e1"),
                 IdentityRow(5, "X", "p1", NULL)},
   address |-> {[id |-> "a1", personId |-> "A"], [id |-> "a2", personId |-> "B"],
                [id |-> "a3", personId |-> "X"]},
   celebration |-> {CelebrationRow("c1", "B", "BIRTHDAY", 255, "FREQ=YEARLY", <<7, 1, 0>>),
                    CelebrationRow("c2", "X", "BIRTHDAY", 255, "FREQ=YEARLY", <<7, 1, 0>>)},
   event |-> {[id |-> "e1", hostUserId |-> "u1", datetime |-> 258]},
   eventGuest |-> {[id |-> "g1", eventId |-> "e1", personId |-> "A"],
                   [id |-> "g2", eventId |-> "e1", personId |-> "B"],
                   [id |-> "g3", eventId |-> "e1", personId |-> NULL]},
   scheduledReminder |-> {},
   rateLimitLog |-> {}]

Init ==
  /\ db = SeedStore
  /\ merge = MergeIdle
  /\ dup = DupNone
  /\ ident = IdentNone
  /\ occ = OccNone
  /\ inv = InvNone
  /\ login = LoginNone
  /\ parked = ParkedNone
  /\ notified = {}
  /\ sched = SchedIdle
  /\ proc = ProcIdle
  /\ now = 0
  /\ nextId = 1
  /\ attempts = [id \in 1..MaxReminderIds |-> 0]

\* The dedup engine: merges, deletions and duplicate listings of both users.
Next ==
  \/ \E u \in Users, p1, p2 \in PersonIds \cup {GhostPerson} : MergeCall(u, p1, p2)
  \/ MergeBegin
  \/ MergeStmt
  \/ MergeAbort
  \/ MergeCommit
  \/ MergeReturn
  \/ MergeRespond
  \/ \E u \in Users, pid \in PersonIds : DeletePerson(u, pid)
  \/ \E u \in Users : GetSuggestedDuplicates(u)

Spec == Init /\ [][Next]_vars

\* The scheduler: scheduling of celebrations and events, the cron pass, the clock.
NextSched ==
  \/ \E c \in {"c1", "c2"}, date \in Dates, offsets \in OffsetLists :
       ScheduleCelebrationCall(c, date, offsets)
  \/ \E e \in {"e1"}, datetime \in EventTimes : ScheduleEventCall(e, datetime)
  \/ ScheduleCreate
  \/ ScheduleCreateFails
  \/ ScheduleReturn
  \/ ProcessStart
  \/ ProcessLoad
  \/ ProcessDeliver
  \/ ProcessMark
  \/ ProcessReturn
  \/ \E t \in ClockStops : Tick(t)

SpecSched == Init /\ [][NextSched]_vars

\* The celebration routes: either user creates a celebration for B (of u1) or
\* for X (of u2), and updates c1 (of u1) or the created one.
NextCeleb ==
  \/ \E u \in Users, pid \in {"B", "X"}, body \in PostBodies : PostCelebration(u, pid, body)
  \/ \E u \in Users, pid \in {"B", "X"} :
       \E body \in {b \in PostBodies : b.has \subseteq {"type", "title", "date"}} :
         PostCelebrationRejected(u, pid, body)
  \/ \E u \in Users, c \in {"c1", NewCelebrationId}, body \in PutBodies :
       PutCelebration(u, c, body)
  \/ \E u \in Users, c \in {"c1", NewCelebrationId} : PutCelebrationNotFound(u, c)
  \/ ScheduleDelete
  \/ ScheduleCreate
  \/ ScheduleCreateFails
  \/ ScheduleReturn

SpecCeleb == Init /\ [][NextCeleb]_vars

\* getSuggestedDuplicates over every small identity table: the people of the seed
\* store, with up to MaxIdentities identity rows of these kinds.
MaxIdentities == 4

PersonSeq == <<"A", "B", "C", "X">>
ValueSeq == <<[phone |-> "p1", email |-> NULL], [phone |-> "p2", email |-> NULL],
              [phone |-> NULL, email |-> "e1"], [phone |-> "p1", email |-> "e1"]>>

NumKinds == Len(PersonSeq) * Len(ValueSeq)

KindRow(id, k) ==
  LET person == PersonSeq[((k - 1) \div Len(ValueSeq)) + 1]
      value == ValueSeq[((k - 1) % Len(ValueSeq)) + 1]
  IN IdentityRow(id, person, value.phone, value.email)

\* Ids follow creation order; tables that differ only in the order in which the
\* same rows were created are drawn once.
IdentityTables ==
  UNION {{ {KindRow(n, s[n]) : n \in 1..len} :
             s \in {t \in [1..len -> 1..NumKinds] :
                      \A a, b \in 1..len : a < b => t[a] <= t[b]} } :
         len \in 0..MaxIdentities}

InitDup ==
  /\ db \in {[SeedStore EXCEPT !.identity = table] : table \in IdentityTables}
  /\ merge = MergeIdle
  /\ dup = DupNone
  /\ ident = IdentNone
  /\ occ = OccNone
  /\ inv = InvNone
  /\ login = LoginNone
  /\ parked = ParkedNone
  /\ notified = {}
  /\ sched = SchedIdle
  /\ proc = ProcIdle
  /\ now = 0
  /\ nextId = 1
  /\ attempts = [id \in 1..MaxReminderIds |-> 0]

NextDup == \E u \in Users : GetSuggestedDuplicates(u)

SpecDup == InitDup /\ [][NextDup]_vars

\* A backlog: Take + Excess unsent reminders, all due (Take of them of c2, whose
\* user has push disabled, the others of c1), and the hourly job as the only
\* activity. The job fires every hour and every await of a pass resolves.
Excess == 1

BacklogIds == 1..(Take + Excess)

InitBacklog ==
  /\ db = [SeedStore EXCEPT !.scheduledReminder =
            {IF id <= Take THEN ReminderRow(id, "u2", "c2", NULL, 249)
                           ELSE ReminderRow(id, "u1", "c1", NULL, 249) :
               id \in BacklogIds}]
  /\ merge = MergeIdle
  /\ dup = DupNone
  /\ ident = IdentNone
  /\ occ = OccNone
  /\ inv = InvNone
  /\ login = LoginNone
  /\ parked = ParkedNone
  /\ notified = {}
  /\ sched = SchedIdle
  /\ proc = ProcIdle
  /\ now = 300
  /\ nextId = Take + Excess + 1
  /\ attempts = [id \in BacklogIds |-> 0]

NextBacklog ==
  \/ ProcessStart
  \/ ProcessLoad
  \/ ProcessDeliver
  \/ ProcessMark
  \/ ProcessReturn

SpecBacklog == InitBacklog /\ [][NextBacklog]_vars /\ WF_vars(NextBacklog)

\* Identity requests over a store whose identities are the seed's kind of rows
\* (plain values, written by a script without the middleware): the phone of A,
\* the same phone for X of the other user, an e-mail address for B.
SeedPhone == <<"+", "1", "5", "5", "5", "9", "8", "7", "6", "5", "4", "3">>
SeedEmail == <<"j", "@", "x", ".", "i", "o">>

ShortPhone == <<"5", "5", "5">>
NoDotEmail == <<"j", "@", "x">>

PhoneInputs ==
  {Null,
   <<"(", "5", "5", "5", ")", " ", "9", "8", "7", "-", "6", "5", "4", "3">>,
   <<"1", "5", "5", "5", "9", "8", "7", "6", "5", "4", "3">>,
   ShortPhone}

EmailInputs == {Null, <<"J", "@", "X", ".", "i", "o">>, NoDotEmail, <<" ">>}

InitIdent ==
  /\ db = [SeedStore EXCEPT !.identity =
            {IdentityRow(1, "A", SeedPhone, Null), IdentityRow(2, "B", Null, SeedEmail),
             IdentityRow(3, "X", SeedPhone, Null)}]
  /\ merge = MergeIdle
  /\ dup = DupNone
  /\ ident = IdentNone
  /\ occ = OccNone
  /\ inv = InvNone
  /\ login = LoginNone
  /\ parked = ParkedNone
  /\ notified = {}
  /\ sched = SchedIdle
  /\ proc = ProcIdle
  /\ now = 0
  /\ nextId = 1
  /\ attempts = [id \in 1..MaxReminderIds |-> 0]

NextIdent ==
  \/ \E u \in Users, phone \in PhoneInputs, email \in EmailInputs :
       FindMatchingPerson(u, phone, email)
  \/ \E u \in Users, pid \in {"A", "B", "X"}, phone \in PhoneInputs,
        email \in EmailInputs, salt \in Salts : PostIdentity(u, pid, phone, email, salt)
  \/ \E u \in Users, pid \in {"A", "B", "X"}, phone \in {Null, ShortPhone},
        email \in {Null, NoDotEmail} : PostIdentityRejected(u, pid, phone, email)

SpecIdent == InitIdent /\ [][NextIdent]_vars

\* getNextOccurrence on anchors of 2020 to 2024 (two of them leap days) and on
\* from-dates of 2025 to 2028, at midnight and at noon.
DateOf(y, m, d, h) == MakeDay(y, m, d) * HoursPerDay + h

Anchors ==
  {DateOf(2020, 3, 15, 0), DateOf(2020, 2, 29, 0), DateOf(2024, 2, 29, 12),
   DateOf(2020, 12, 31, 12), DateOf(2021, 1, 1, 0)}

FromDates ==
  {DateOf(y, m, d, h) : y \in 2025..2028, m \in {1, 2, 3, 4, 12}, d \in {1, 15, 28}, h \in {0, 12}}
    \cup {DateOf(2028, 2, 29, 0), DateOf(2027, 6, 1, 0), DateOf(2025, 12, 31, 12)}

InitOcc ==
  /\ db = SeedStore
  /\ merge = MergeIdle
  /\ dup = DupNone
  /\ ident = IdentNone
  /\ \E a \in Anchors, f \in FromDates :
       occ = [OccNone EXCEPT !.originalDate = a, !.fromDate = f]
  /\ inv = InvNone
  /\ login = LoginNone
  /\ parked = ParkedNone
  /\ notified = {}
  /\ sched = SchedIdle
  /\ proc = ProcIdle
  /\ now = 0
  /\ nextId = 1
  /\ attempts = [id \in 1..MaxReminderIds |-> 0]

NextOcc == GetNextOccurrence

SpecOcc == InitOcc /\ [][NextOcc]_vars

\* Deletions of persons while reminders are scheduled and processed: the store
\* holds two due reminders of c1 (person B of u1), one of c2 (person X of u2)
\* and one of event e1.
InitDel ==
  /\ db = [SeedStore EXCEPT !.scheduledReminder =
             CelebrationReminders(1, "u1", "c1", 255, <<1, 0>>)
               \cup {ReminderRow(3, "u2", "c2", NULL, 249),
                     ReminderRow(4, "u1", NULL, "e1", 249)}]
  /\ merge = MergeIdle
  /\ dup = DupNone
  /\ ident = IdentNone
  /\ occ = OccNone
  /\ inv = InvNone
  /\ login = LoginNone
  /\ parked = ParkedNone
  /\ notified = {}
  /\ sched = SchedIdle
  /\ proc = ProcIdle
  /\ now = 249
  /\ nextId = 5
  /\ attempts = [id \in 1..MaxReminderIds |-> 0]

NextDel ==
  \/ \E u \in Users, pid \in PersonIds : DeletePerson(u, pid)
  \/ \E c \in {"c1"}, offsets \in {<<0>>} : ScheduleCelebrationCall(c, 255, offsets)
  \/ ScheduleCreate
  \/ ScheduleReturn
  \/ ProcessStart
  \/ ProcessLoad
  \/ ProcessDeliver
  \/ ProcessMark
  \/ ProcessReturn
  \/ \E t \in {300} : Tick(t)

SpecDel == InitDel /\ [][NextDel]_vars

\* normalizePhone on every string of up to MaxDigits digits, and on the strings
\* of 9 to 11 digits with a hyphen put in anywhere.
MaxDigits == 12

DigitStrings == UNION {[1..n -> {"1", "5"}] : n \in 0..MaxDigits}

InsertAt(str, k, c) == SubSeq(str, 1, k) \o <<c>> \o SubSeq(str, k + 1, Len(str))

PhoneStrings ==
  DigitStrings \cup
    UNION {{InsertAt(str, k, "-") : k \in 0..Len(str)} :
             str \in {x \in DigitStrings : Len(x) \in 9..11}}

InitPhone ==
  /\ db = SeedStore
  /\ merge = MergeIdle
  /\ dup = DupNone
  /\ \E phone \in PhoneStrings : ident = [IdentNone EXCEPT !.phone = phone]
  /\ occ = OccNone
  /\ inv = InvNone
  /\ login = LoginNone
  /\ parked = ParkedNone
  /\ notified = {}
  /\ sched = SchedIdle
  /\ proc = ProcIdle
  /\ now = 0
  /\ nextId = 1
  /\ attempts = [id \in 1..MaxReminderIds |-> 0]

NextPhone == NormalizePhone

SpecPhone == InitPhone /\ [][NextPhone]_vars

\* Invitations by u1, two requests at a time, within one hour: of a contact or
\* of A (a guest already) to e1, and of a contact to an event that is not.
InviteTargets == {<<"e1", NULL>>, <<"e1", "A">>, <<GhostEvent, NULL>>}

InitInvite ==
  /\ db = SeedStore
  /\ merge = MergeIdle
  /\ dup = DupNone
  /\ ident = IdentNone
  /\ occ = OccNone
  /\ inv = InvNone
  /\ login = LoginNone
  /\ parked = ParkedNone
  /\ notified = {}
  /\ sched = SchedIdle
  /\ proc = ProcIdle
  /\ now = 249
  /\ nextId = 1
  /\ attempts = [id \in 1..MaxReminderIds |-> 0]

NextInvite ==
  \/ \E r \in Requests, target \in InviteTargets :
       InviteCheck(r, "u1", target[1], target[2])
  \/ \E r \in Requests : InviteUpsert(r)
  \/ \E r \in Requests : InviteUpsertConflict(r)
  \/ \E r \in Requests : InviteVerify(r)
  \/ \E r \in Requests : InviteCreate(r)
  \/ \E r \in Requests : InviteReturn(r)

SpecInvite == InitInvite /\ [][NextInvite]_vars

(***************************************************************************)
(* Properties of mergePeople.                                              *)
(***************************************************************************)
PersonTables == {"identity", "address", "celebration", "eventGuest"}

\* Row `id` of table t references person pid in store d.
References(d, t, id, pid) == \E r \in d[t] : r.id = id /\ r.personId = pid

\* Some of the donor's rows re-pointed while the donor still exists, or the donor
\* deleted while some of its rows were not re-pointed (before: the store when the
\* transaction opened).
PartiallyMerged(before, d, survivor, donor) ==
  \/ /\ donor \in Ids(d.person)
     /\ \E t \in PersonTables : \E r \in before[t] :
          r.personId = donor /\ References(d, t, r.id, survivor)
  \/ /\ donor \notin Ids(d.person)
     /\ \E t \in PersonTables : \E r \in before[t] :
          r.personId = donor /\ ~References(d, t, r.id, survivor)

MergeAtomicStep ==
  /\ merge'.pc \in {"tx", "aborted"} => db' = merge'.pre
  /\ (merge' # merge /\ db' # db) => (merge.pc = "tx" /\ merge'.pc = "committed")
  /\ (merge'.pc \in {"tx", "aborted"} \/ (merge.pc = "tx" /\ merge'.pc = "committed"))
       => \/ merge'.person1Id = merge'.person2Id
          \/ ~PartiallyMerged(merge'.pre, db', merge'.person1Id, merge'.person2Id)

\* C1: mergePeople is atomic. While its transaction is open, and after an abort
\* before, between or after any of the five statements, the store is exactly the
\* store the transaction opened on; the only step of a merge that changes the
\* store is the commit; and in no state of a merge of two different persons are
\* some donor rows re-pointed while the donor exists, or the donor deleted while
\* some of its rows are not re-pointed.
C1_MergeAtomic == [][MergeAtomicStep]_vars

\* C1 witness: a merge of two different persons aborted after some but not all
\* statements had changed the transaction's working copy.
C1_Witness ==
  /\ merge.pc = "aborted"
  /\ merge.person1Id # merge.person2Id
  /\ merge.step \in 1..(NumMergeStatements - 1)
  /\ merge.tx # merge.pre
  /\ \E r \in merge.pre.identity : r.personId = merge.person2Id

RowsOf(d, t, pid) == {r \in d[t] : r.personId = pid}

MergeCommitStep ==
  (/\ merge.pc = "tx"
   /\ merge'.pc = "committed"
   /\ merge.person1Id # merge.person2Id
   /\ merge.person1Id \in Ids(db'.person))
  => LET a == merge.person1Id
         b == merge.person2Id
     IN /\ b \notin Ids(db'.person)
        /\ db'.person = {p \in db.person : p.id # b}
        /\ \A t \in PersonTables :
             /\ Ids(db'[t]) = Ids(db[t])
             /\ Cardinality(db'[t]) = Cardinality(db[t])
             /\ \A r \in db[t] :
                  [r EXCEPT !.personId = IF @ = b THEN a ELSE @] \in db'[t]
             /\ Cardinality(RowsOf(db', t, a))
                  = Cardinality(RowsOf(db, t, a)) + Cardinality(RowsOf(db, t, b))
        /\ db'.scheduledReminder = db.scheduledReminder

\* C3: the commit of mergePeople(userId, A, B), A # B, after which A exists:
\* every identity, address, celebration and event guest that referenced B
\* references A and is otherwise unchanged, rows of A and of other persons are
\* unchanged, B is gone, no row was created or deleted, and A has as many rows
\* of each type as A and B had together.
C3_MergeResult == [][MergeCommitStep]_vars

\* C3 witness: A (1 identity) has absorbed B (2 identities, 1 celebration, 1 guest row).
C3_Witness ==
  /\ merge.pc = "committed"
  /\ merge.person1Id = "A" /\ merge.person2Id = "B"
  /\ Cardinality(RowsOf(merge.pre, "identity", "A")) = 1
  /\ Cardinality(RowsOf(merge.pre, "identity", "B")) = 2
  /\ Cardinality(RowsOf(db, "identity", "A")) = 3
  /\ Cardinality(RowsOf(db, "celebration", "A")) = 1
  /\ References(db, "eventGuest", "g2", "A")
  /\ "B" \notin Ids(db.person)

\* The rows of persons that do not belong to user u, and those persons.
ForeignRows(d, u) ==
  LET foreign == {p.id : p \in {p \in d.person : p.userId # u}}
  IN [person |-> {p \in d.person : p.userId # u},
      identity |-> {r \in d.identity : r.personId \in foreign},
      address |-> {r \in d.address : r.personId \in foreign},
      celebration |-> {r \in d.celebration : r.personId \in foreign},
      eventGuest |-> {r \in d.eventGuest : r.personId \in foreign}]

HasPersonOf(d, u, pid) == \E p \in d.person : p.id = pid /\ p.userId = u

MergeNotFoundStep ==
  /\ (merge.pc = "idle" /\ merge'.pc # "idle"
      /\ ~(HasPersonOf(db, merge'.userId, merge'.person1Id)
           /\ HasPersonOf(db, merge'.userId, merge'.person2Id)))
       => (merge'.pc = "notfound" /\ db' = db)
  /\ merge.pc = "notfound" => (db' = db /\ merge'.pc = "idle")
  /\ (merge' # merge /\ merge.pc # "idle")
       => ForeignRows(db', merge.userId) = ForeignRows(db, merge.userId)

\* C10: a mergePeople call in which person1Id or person2Id names no Person of
\* userId ends in the not-found error without a store write, and no step of any
\* merge changes a Person of another user or a row referencing one.
C10_MergeNotFound == [][MergeNotFoundStep]_vars

\* C10 witness: u1 asked to merge its person A with X, an existing person of u2
\* that has rows, and got the not-found error.
C10_Witness ==
  /\ merge.pc = "notfound"
  /\ merge.userId = "u1" /\ merge.person1Id = "A" /\ merge.person2Id = "X"
  /\ HasPersonOf(db, "u1", "A")
  /\ HasPersonOf(db, "u2", "X")
  /\ RowsOf(db, "identity", "X") # {}

(***************************************************************************)
(* Properties of getSuggestedDuplicates. dup is the response to the last   *)
(* step, so it was computed from the store of the state it is read in.     *)
(***************************************************************************)
PeopleOf(d, u) == {p.id : p \in {p \in d.person : p.userId = u}}

\* The phones / emails stored on identities of person pid.
PhonesOf(d, pid) == {r.normalizedPhone : r \in RowsOf(d, "identity", pid)} \ {NULL}
EmailsOf(d, pid) == {r.normalizedEmail : r \in RowsOf(d, "identity", pid)} \ {NULL}

\* The positions in the response of the suggestions for the unordered pair {a, b}.
SuggestionsFor(a, b) ==
  {n \in DOMAIN dup.suggestions :
     {dup.suggestions[n].person1, dup.suggestions[n].person2} = {a, b}}

SuggestionsOfType(a, b, type) ==
  {n \in SuggestionsFor(a, b) : dup.suggestions[n].matchType = type}

SharePhoneAndEmail(d, a, b) ==
  /\ a # b
  /\ PhonesOf(d, a) \cap PhonesOf(d, b) # {}
  /\ EmailsOf(d, a) \cap EmailsOf(d, b) # {}

\* C7 as claimed: a pair sharing a phone and an email gets exactly two
\* suggestions, one of type phone and one of type email, and no pair gets two
\* suggestions of the same type.
C7_OnePerMatchType ==
  dup.userId # NULL =>
    \A a, b \in PeopleOf(db, dup.userId) :
      /\ SharePhoneAndEmail(db, a, b) =>
           /\ Cardinality(SuggestionsFor(a, b)) = 2
           /\ Cardinality(SuggestionsOfType(a, b, "phone")) = 1
           /\ Cardinality(SuggestionsOfType(a, b, "email")) = 1
      /\ Cardinality(SuggestionsOfType(a, b, "phone")) <= 1
      /\ Cardinality(SuggestionsOfType(a, b, "email")) <= 1

\* C7 amended: the response holds at most one suggestion per pair over both match
\* types. A pair sharing a stored phone and a stored email gets exactly one
\* suggestion, of type phone (the phone map is scanned first and the pair is
\* then in seenPairs); so no pair gets two suggestions of the same type either,
\* however many phones or emails the two persons share.
C7_OnePerPair ==
  dup.userId # NULL =>
    \A a, b \in PeopleOf(db, dup.userId) :
      /\ Cardinality(SuggestionsFor(a, b)) <= 1
      /\ SharePhoneAndEmail(db, a, b) =>
           /\ Cardinality(SuggestionsFor(a, b)) = 1
           /\ Cardinality(SuggestionsOfType(a, b, "phone")) = 1
      /\ (a # b /\ Cardinality(SuggestionsFor(a, b)) = 1) =>
           \E n \in SuggestionsFor(a, b) :
             LET g == dup.suggestions[n]
             IN IF g.matchType = "phone"
                THEN g.matchValue \in PhonesOf(db, a) \cap PhonesOf(db, b)
                ELSE /\ g.matchValue \in EmailsOf(db, a) \cap EmailsOf(db, b)
                     /\ PhonesOf(db, a) \cap PhonesOf(db, b) = {}

\* C7 witness: a response for two persons who share two phones and an email.
C7_Witness ==
  /\ dup.userId = "u1"
  /\ SharePhoneAndEmail(db, "A", "B")
  /\ Cardinality(PhonesOf(db, "A") \cap PhonesOf(db, "B")) = 2
  /\ Cardinality(SuggestionsFor("A", "B")) = 1

\* C8 as claimed: every suggestion pairs two different persons, both of the user.
C8_DistinctPersons ==
  dup.userId # NULL =>
    \A n \in DOMAIN dup.suggestions :
      /\ dup.suggestions[n].person1 # dup.suggestions[n].person2
      /\ {dup.suggestions[n].person1, dup.suggestions[n].person2}
           \subseteq PeopleOf(db, dup.userId)

\* The identities of person pid that store phone ph.
HoldingRows(d, pid, ph) == {r \in RowsOf(d, "identity", pid) : r.normalizedPhone = ph}

Holders(d, u, ph) == {pid \in PeopleOf(d, u) : HoldingRows(d, pid, ph) # {}}

\* The persons of Holders hold ph in one identity each and share nothing else.
CleanlyShared(d, u, ph) ==
  /\ \A pid \in Holders(d, u, ph) : Cardinality(HoldingRows(d, pid, ph)) = 1
  /\ \A a, b \in Holders(d, u, ph) :
       a # b => /\ PhonesOf(d, a) \cap PhonesOf(d, b) = {ph}
                /\ EmailsOf(d, a) \cap EmailsOf(d, b) = {}

PhoneSuggestions(ph) ==
  {n \in DOMAIN dup.suggestions :
     dup.suggestions[n].matchType = "phone" /\ dup.suggestions[n].matchValue = ph}

\* C9: when the n persons of the user that store phone ph store it in one
\* identity each and share no other value, the response has exactly n(n-1)/2
\* suggestions for ph, one for each unordered pair of them, and no suggestion of
\* the response names a person of another user.
C9_AllPairsOnce ==
  dup.userId # NULL =>
    /\ \A n \in DOMAIN dup.suggestions :
         {dup.suggestions[n].person1, dup.suggestions[n].person2}
           \subseteq PeopleOf(db, dup.userId)
    /\ \A ph \in Phones :
         CleanlyShared(db, dup.userId, ph) =>
           LET H == Holders(db, dup.userId, ph)
               n == Cardinality(H)
           IN /\ 2 * Cardinality(PhoneSuggestions(ph)) = n * (n - 1)
              /\ \A a, b \in H :
                   a # b => Cardinality(SuggestionsFor(a, b) \cap PhoneSuggestions(ph)) = 1
              /\ \A k \in PhoneSuggestions(ph) :
                   /\ dup.suggestions[k].person1 # dup.suggestions[k].person2
                   /\ {dup.suggestions[k].person1, dup.suggestions[k].person2} \subseteq H

\* C9 witness: A, B and C of u1 and X of u2 each store p1 once; u1 gets 3 suggestions.
C9_Witness ==
  /\ dup.userId = "u1"
  /\ Holders(db, "u1", "p1") = {"A", "B", "C"}
  /\ HoldingRows(db, "X", "p1") # {}
  /\ CleanlyShared(db, "u1", "p1")
  /\ Cardinality(PhoneSuggestions("p1")) = 3
  /\ Len(dup.suggestions) = 3

(***************************************************************************)
(* Properties of the scheduler.                                            *)
(***************************************************************************)
ReminderIds(d) == {r.id : r \in d.scheduledReminder}

\* C2 as claimed: the replace step is all-or-nothing. Between the deleteMany and
\* the createMany (a state other handlers and the cron pass run in), and after a
\* failed createMany, the parent's previous reminders are still in the store.
C2_ReplaceAllOrNothing ==
  sched.pc \in {"deleted", "failed"} =>
    \A r \in sched.old : r.id \in ReminderIds(db)

\* The instant 09:00 on the calendar day of `date` minus `days` days.
NineOClock(date, days) == ((date \div 24) - days) * 24 + 9

ParentRows(d, kind, parent) ==
  {r \in d.scheduledReminder :
     (IF kind = "celebration" THEN r.celebrationId ELSE r.eventId) = parent}

ScheduleCelebrationStep ==
  /\ (sched' # sched /\ sched'.pc # "idle") =>
       \* no step of a scheduling touches the reminders of another parent
       db'.scheduledReminder \ ParentRows(db', sched'.kind, sched'.parent)
         = db.scheduledReminder \ ParentRows(db, sched'.kind, sched'.parent)
  /\ (sched.pc = "deleted" /\ sched'.pc = "done" /\ sched.kind = "celebration") =>
       LET rows == ParentRows(db', "celebration", sched.parent)
           offsets == sched.offsets
       IN /\ Cardinality(rows) = Len(offsets)
          /\ \A r \in rows :
               /\ ~r.sent /\ r.sentAt = NULL
               /\ r.userId = sched.userId /\ r.eventId = NULL
               /\ r.id \notin ReminderIds(db)
               /\ r.id \notin {o.id : o \in sched.old}
          /\ \E f \in [1..Len(offsets) -> rows] :
               /\ \A a, b \in 1..Len(offsets) : a # b => f[a] # f[b]
               /\ \A n \in 1..Len(offsets) :
                    f[n].scheduledFor = NineOClock(sched.date, offsets[n])

\* C6: when scheduleCelebrationReminders(userId, c, D, offsets) completes, the
\* reminders of c are exactly len(offsets) fresh unsent rows, one per offset o at
\* 09:00 on the day of D minus o days, none of them a row of an earlier
\* scheduling; no step of the call changes a reminder of another celebration or
\* of an event.
C6_CelebrationReminders == [][ScheduleCelebrationStep]_vars

\* C6 witness: c1, scheduled with offsets {7,1,0}, re-scheduled with {3,0} against
\* D = day 10, 15:00: exactly the rows at day 7 09:00 and day 10 09:00 remain.
C6_Witness ==
  /\ sched.pc = "done"
  /\ sched.kind = "celebration" /\ sched.parent = "c1"
  /\ sched.offsets = <<3, 0>> /\ sched.date = 255
  /\ {r.scheduledFor : r \in sched.old} = {81, 225, 249}
  /\ {r.scheduledFor : r \in ParentRows(db, "celebration", "c1")} = {177, 249}
  /\ Cardinality(ParentRows(db, "celebration", "c1")) = 2

\* The reminders a pass starting at instant t has to handle.
UnsentDue(d, t) == {r \in d.scheduledReminder : r.sent = FALSE /\ r.scheduledFor <= t}

BatchIds(p) == {p.batch[k].id : k \in DOMAIN p.batch}

ProcessOnceStep ==
  \* never more than one delivery attempt per reminder
  /\ \A id \in DOMAIN attempts' : attempts'[id] <= 1
  \* the query of a pass picks unsent due reminders and no others
  /\ (proc.pc = "idle" /\ proc' # proc) =>
       /\ proc'.loaded \subseteq UnsentDue(db, now)
       /\ Cardinality(UnsentDue(db, now)) <= Take => proc'.loaded = UnsentDue(db, now)
       /\ db' = db /\ attempts' = attempts
  \* and these are the batch of the pass; with nothing to do the pass changes
  \* nothing and returns 0
  /\ (proc.pc = "loading" /\ proc' # proc) =>
       /\ BatchIds(proc') = {r.id : r \in proc.loaded}
       /\ db' = db /\ attempts' = attempts
       /\ UnsentDue(db, proc.now) = {} => (proc'.pc = "done" /\ proc'.count = 0)
  \* the pass marks each reminder of its batch, delivered or not
  /\ (proc.pc = "mark" /\ proc' # proc) =>
       \A r \in db.scheduledReminder :
         r.id = proc.batch[proc.i].id =>
           [r EXCEPT !.sent = TRUE, !.sentAt = proc.now] \in db'.scheduledReminder
  \* a reminder that is sent is not touched by any step of a pass
  /\ proc' # proc =>
       \A r \in db.scheduledReminder : r.sent => r \in db'.scheduledReminder
  \* a pass that ends has attempted each reminder it marked at most once
  /\ proc'.pc = "done" =>
       \A r \in db'.scheduledReminder :
         r.id \in BatchIds(proc') => (r.sent /\ attempts'[r.id] <= 1)

\* C4: passes run one after another. A pass loads exactly the unsent due
\* reminders (up to 100); it hands each to the Notifier at most once and marks it
\* sent; a reminder that is sent is in no later batch, is never delivered again
\* and is not modified by any later pass; a pass that finds no unsent due
\* reminder returns 0 and changes neither the store nor the deliveries.
C4_ProcessedOnce == [][ProcessOnceStep]_vars

\* C4 witness: a second pass has run to its end with nothing to do, after an
\* earlier pass delivered a due reminder once and marked it sent.
C4_Witness ==
  /\ proc.pc = "done"
  /\ proc.batch = <<>>
  /\ proc.count = 0
  /\ \E r \in db.scheduledReminder :
       r.sent /\ r.scheduledFor <= proc.now /\ attempts[r.id] = 1

StoreFailurePropagatesStep ==
  /\ (proc.pc = "mark" /\ proc' # proc
        /\ proc.batch[proc.i].id \notin ReminderIds(db)) => proc'.pc = "failed"
  /\ (sched.pc = "deleted" /\ sched' # sched /\ db' = db
        /\ NewReminders # {}) => sched'.pc = "failed"

C11_StoreFailurePropagates == [][StoreFailurePropagatesStep]_vars

ProcessContinuesStep ==
  \* the Notifier's report, whatever it is, leads to the mark of the same reminder
  /\ (proc.pc = "deliver" /\ proc' # proc) =>
       /\ proc'.pc = "mark" /\ proc'.i = proc.i /\ proc'.count = proc.count
  \* marked or thrown, the pass goes on with the next reminder, and it counts
  \* the reminder exactly when this step marked it
  /\ (proc.pc = "mark" /\ proc' # proc) =>
       LET id == proc.batch[proc.i].id
           marked == /\ \E r \in db.scheduledReminder : r.id = id /\ ~r.sent
                     /\ \E r \in db'.scheduledReminder :
                          r.id = id /\ r.sent /\ r.sentAt = proc.now
       IN /\ proc'.count = proc.count + (IF marked THEN 1 ELSE 0)
          /\ proc'.batch = proc.batch
          /\ IF proc.i < Len(proc.batch)
             THEN proc'.i = proc.i + 1 /\ proc'.pc \in {"deliver", "mark"}
             ELSE proc'.i = proc.i /\ proc'.pc = "done"
  \* the pass ends only behind the last reminder of its batch
  /\ (proc'.pc = "done" /\ proc.pc # "done") =>
       /\ proc'.i = Len(proc'.batch)
       /\ proc'.count <= Len(proc'.batch)

\* C12: an error while one reminder is handled (a failed delivery, or the mark
\* of a row that throws) does not end the pass: the loop goes on to every later
\* reminder of the batch, the pass ends only behind the last one, and the count
\* it returns goes up by one exactly at each reminder this pass marked sent.
C12_PassContinues == [][ProcessContinuesStep]_vars

\* C12 witness: a pass of at least two reminders has ended; the mark of one
\* reminder threw (count is below the batch length), its delivery to another
\* failed, and the last reminder of the batch was still marked by this pass.
C12_Witness ==
  /\ proc.pc = "done"
  /\ Len(proc.batch) >= 2
  /\ proc.count >= 1 /\ proc.count < Len(proc.batch)
  /\ proc.batch[1].id \notin ReminderIds(db)
  /\ \E r \in db.scheduledReminder :
       /\ r.id = proc.batch[Len(proc.batch)].id
       /\ r.sent /\ r.sentAt = proc.now
  /\ proc.outcome = "error"

AllSent == \A r \in db.scheduledReminder : r.sent

\* C13: a pass never holds more than 100 reminders, and with the job fired again
\* and again a backlog of more than 100 unsent due reminders is cleared: from
\* some pass on every reminder is marked sent, whichever 100 rows each query
\* happened to return.
C13_BacklogCleared == [](Len(proc.batch) <= Take) /\ <>[]AllSent

\* C13 witness: of more than 100 due reminders a first pass took 100, and a later
\* pass has ended that took the rest; every reminder is sent.
C13_Witness ==
  /\ Cardinality(db.scheduledReminder) > Take
  /\ proc.pc = "done"
  /\ Len(proc.batch) = Cardinality(db.scheduledReminder) - Take
  /\ proc.count = Len(proc.batch)
  /\ AllSent

ScheduleEventStep ==
  (sched.pc = "deleted" /\ sched'.pc = "done" /\ sched.kind = "event") =>
    LET rows == ParentRows(db', "event", sched.parent)
        T == sched.date
    IN /\ Cardinality(rows) = 2
       /\ {r.scheduledFor : r \in rows} = {NineOClock(T, 1), T - 1}
       /\ \A r \in rows :
            /\ ~r.sent /\ r.sentAt = NULL
            /\ r.userId = sched.userId /\ r.celebrationId = NULL
            /\ r.id \notin {o.id : o \in sched.old}
       \* nothing but the event's own rows changed during the call
       /\ db'.scheduledReminder \ rows = db.scheduledReminder
       /\ \A r \in db.scheduledReminder : r.eventId # sched.parent

\* C18: when scheduleEventReminders(userId, e, T) completes, exactly two
\* reminders reference e, both unsent and new: one at 09:00 on the day before T
\* and one an hour before T, however many referenced e before; the reminders of
\* other events and of celebrations are as they were.
C18_EventReminders == [][ScheduleEventStep]_vars

\* C18 witness: e1, which had two reminders from an earlier scheduling, is
\* scheduled against T = day 11, 00:00: its reminders are the rows at day 10,
\* 09:00 and day 10, 23:00, and neither of the two earlier rows.
C18_Witness ==
  /\ sched.pc = "done" /\ sched.kind = "event" /\ sched.parent = "e1"
  /\ sched.date = 264
  /\ Cardinality(sched.old) = 2
  /\ {r.scheduledFor : r \in ParentRows(db, "event", "e1")} = {249, 263}
  /\ {r.id : r \in ParentRows(db, "event", "e1")} \cap {o.id : o \in sched.old} = {}

\* The user can be pushed to: notifications enabled and a token registered.
Reachable(d, u) ==
  \E x \in d.user : x.id = u /\ x.pushEnabled /\ x.pushToken # NULL

NotifierOnlyIfReadyStep ==
  \* a delivery is counted only at the delivery step of the reminder in turn
  /\ \A id \in DOMAIN attempts :
       attempts'[id] # attempts[id] =>
         (proc.pc = "deliver" /\ id = proc.batch[proc.i].id)
  \* the pass calls the Notifier only for a user who was reachable when the
  \* batch was loaded, and the Notifier sends only if the user still is
  /\ (proc.pc = "loading" /\ proc' # proc) =>
       \A k \in DOMAIN proc'.batch :
         proc'.batch[k].pushReady <=> Reachable(db, proc'.batch[k].userId)
  /\ (proc.pc = "deliver" /\ proc' # proc) =>
       LET entry == proc.batch[proc.i]
       IN /\ entry.pushReady
          /\ proc'.outcome \in SendOutcomes <=> Reachable(db, entry.userId)
          /\ ~Reachable(db, entry.userId) =>
               (proc'.outcome = "norecipient" /\ db' = db)
  \* a reminder of a user who was not reachable is marked without any delivery
  /\ (proc.pc = "mark" /\ proc' # proc /\ ~proc.batch[proc.i].pushReady) =>
       LET id == proc.batch[proc.i].id
       IN /\ attempts'[id] = 0
          /\ proc'.outcome = "notcalled"
          /\ \A r \in db.scheduledReminder :
               r.id = id =>
                 [r EXCEPT !.sent = TRUE, !.sentAt = proc.now] \in db'.scheduledReminder

\* C19: a pass calls the Notifier for a reminder only when its user had push
\* enabled and a token when the batch was loaded, and the Notifier sends only
\* when the user has both at the time of the call; for a user with push disabled
\* or without a token nothing is sent, and the reminder is marked sent all the
\* same.
C19_NotifierOnlyIfReady == [][NotifierOnlyIfReadyStep]_vars

\* C19 witness: a pass has ended that marked the reminder of a user with push
\* disabled without any delivery, and whose last reminder reached the Notifier
\* after its user's token had been removed: nothing was sent and it is marked.
C19_Witness ==
  /\ proc.pc = "done"
  /\ proc.outcome = "norecipient"
  /\ \E r \in db.scheduledReminder : r.id = proc.handled /\ r.sent
  /\ \E k \in DOMAIN proc.batch :
       /\ ~proc.batch[k].pushReady
       /\ attempts[proc.batch[k].id] = 0
       /\ \E r \in db.scheduledReminder : r.id = proc.batch[k].id /\ r.sent

CelebrationById(d, c) == CHOOSE x \in d.celebration : x.id = c

RegenerateStep ==
  \* an update request that ends without a scheduling has changed neither the
  \* stored date, nor the stored offsets, nor any reminder
  /\ (sched.pc = "idle" /\ sched'.pc = "done") =>
       /\ db'.scheduledReminder = db.scheduledReminder
       /\ \A x \in db.celebration :
            /\ x.id \in Ids(db'.celebration)
            /\ CelebrationById(db', x.id).date = x.date
            /\ CelebrationById(db', x.id).reminderOffsets = x.reminderOffsets
  \* a request that ends after its scheduling leaves the reminders of the
  \* celebration's stored date and stored offsets, and no other of its own
  /\ (sched.pc = "deleted" /\ sched'.pc = "done") =>
       LET stored == CelebrationById(db', sched.parent)
           rows == ParentRows(db', "celebration", sched.parent)
           offsets == stored.reminderOffsets
       IN /\ Cardinality(rows) = Len(offsets)
          /\ \A r \in rows : ~r.sent /\ r.id \notin {o.id : o \in sched.old}
          /\ \E f \in [1..Len(offsets) -> rows] :
               /\ \A a, b \in 1..Len(offsets) : a # b => f[a] # f[b]
               /\ \A n \in 1..Len(offsets) :
                    f[n].scheduledFor = NineOClock(stored.date, offsets[n])

\* C14: a celebration update that supplies a date or offsets ends with the
\* celebration's reminders being exactly those of its stored date and stored
\* offsets, none of them a row from before; an update that supplies neither
\* changes no reminder (and neither the stored date nor the stored offsets).
C14_RemindersRegenerated == [][RegenerateStep]_vars

\* C14 witness: c1 (seeded with date 255 and offsets {7,1,0}) was updated to
\* date 288 and then to offsets {3,0}: its reminders are the two rows of day
\* 12 - 3 and day 12 at 09:00, and the three rows of the first update are gone.
C14_Witness ==
  /\ sched.pc = "done" /\ sched.parent = "c1"
  /\ CelebrationById(db, "c1").date = 288
  /\ CelebrationById(db, "c1").reminderOffsets = <<3, 0>>
  /\ {r.scheduledFor : r \in sched.old} = {129, 273, 297}
  /\ {r.scheduledFor : r \in ParentRows(db, "celebration", "c1")} = {225, 297}
  /\ Cardinality(ParentRows(db, "celebration", "c1")) = 2

\* C15 as claimed: every BIRTHDAY or ANNIVERSARY celebration carries the yearly
\* rule and every LIFE_EVENT celebration carries no rule, in every state the
\* create and update requests lead to.
C15_RecurrenceByType ==
  \A x \in db.celebration :
    IF x.type = "LIFE_EVENT" THEN x.recurringRule = NULL
    ELSE x.recurringRule = "FREQ=YEARLY"

\* C16: findMatchingPerson returns nothing when neither a phone nor an e-mail
\* address is supplied; a person it returns is the user's and has an identity
\* whose stored normalizedPhone is normalizePhone(phone) or whose stored
\* normalizedEmail is normalizeEmail(email); it returns nothing exactly when
\* no identity of the user's persons is such a row, whatever the rows of
\* other users.
FindMatchingStep ==
  (ident'.op = "find") =>
    LET u == ident'.userId
        phone == ident'.phone
        email == ident'.email
        res == ident'.result
        Hit(r) == \/ phone # Null /\ r.normalizedPhone = normalizePhone(phone)
                  \/ email # Null /\ r.normalizedEmail = normalizeEmail(email)
        mine == {r \in db.identity :
                   \E p \in db.person : p.id = r.personId /\ p.userId = u}
    IN /\ (phone = Null /\ email = Null) => res = NULL
       /\ res # NULL => /\ \E p \in db.person : p.id = res /\ p.userId = u
                        /\ \E r \in mine : r.personId = res /\ Hit(r)
       /\ res = NULL <=> ~\E r \in mine : Hit(r)

C16_FindMatchingPerson == [][FindMatchingStep]_vars

\* C16 witness: u2 asks for the formatted seed phone, which A of u1 and X of u2
\* both store, and gets X.
C16_Witness ==
  /\ ident.op = "find" /\ ident.userId = "u2" /\ ident.result = "X"
  /\ Len(ident.phone) = 14 /\ ident.email = Null
  /\ \E r \in db.identity : r.personId = "A" /\ r.normalizedPhone = normalizePhone(ident.phone)

\* Y holds the value: an identity of Y stores it as the seed does or as the
\* identity-create path does.
HoldsPhone(r, phone) ==
  \/ r.normalizedPhone = phone
  \/ \E salt \in Salts : r.normalizedPhone = Stored(phone, salt)

Others(d, u, pid, phone, email) ==
  {r.personId : r \in {r \in d.identity :
     /\ r.personId # pid
     /\ \E p \in d.person : p.id = r.personId /\ p.userId = u
     /\ \/ phone # Null /\ HoldsPhone(r, normalizePhone(phone))
        \/ email # Null /\ r.normalizedEmail = normalizeEmail(email)}}

PotentialDuplicateStep ==
  (ident'.op = "post" /\ ident'.status = 201 /\ db' # db) =>
    LET others == Others(db, ident'.userId, ident'.personId, ident'.phone, ident'.email)
    IN others # {} => ident'.potentialDuplicate \in others

\* C17 as claimed: a POST /identities answered 201 for person X, with a phone or
\* an e-mail address whose normalized value an identity of another person Y of
\* the same user already stores, names such a Y in potentialDuplicate.
C17_PotentialDuplicateFlagged == [][PotentialDuplicateStep]_vars

\* The calendar day of the anchor in year y exists.
HasDay(t, y) == getMonth(t) # 2 \/ getDate(t) <= 28 \/ IsLeap(y)

\* C20 as claimed: the result has the anchor's month, day and time of day, is
\* not before from, and lies in from's year when the anchor's day of that year
\* is not before from and in the year after otherwise; 2020-03-15 gives
\* 2025-03-15 from 2025-01-01 and 2026-03-15 from 2025-04-01.
C20_NextOccurrence ==
  occ.done =>
    LET a == occ.originalDate
        f == occ.fromDate
        r == occ.nextDate
        y == getFullYear(f)
    IN /\ getMonth(r) = getMonth(a) /\ getDate(r) = getDate(a)
       /\ r % HoursPerDay = a % HoursPerDay
       /\ r >= f
       /\ getFullYear(r) \in {y, y + 1}
       /\ getFullYear(r) = y <=>
            (HasDay(a, y) /\ DateOf(y, getMonth(a), getDate(a), a % HoursPerDay) >= f)
       /\ (a = DateOf(2020, 3, 15, 0) /\ f = DateOf(2025, 1, 1, 0)) => r = DateOf(2025, 3, 15, 0)
       /\ (a = DateOf(2020, 3, 15, 0) /\ f = DateOf(2025, 4, 1, 0)) => r = DateOf(2026, 3, 15, 0)

\* Every reference of the store points at a row.
ReferencesResolve(d) ==
  /\ \A t \in {"identity", "address", "celebration"} :
       \A r \in d[t] : r.personId \in Ids(d.person)
  /\ \A g \in d.eventGuest : g.personId = NULL \/ g.personId \in Ids(d.person)
  /\ \A r \in d.scheduledReminder :
       /\ r.celebrationId = NULL \/ r.celebrationId \in Ids(d.celebration)
       /\ r.eventId = NULL \/ r.eventId \in Ids(d.event)
       /\ r.celebrationId # NULL \/ r.eventId # NULL

DeletePersonStep ==
  \A pid \in Ids(db.person) \ Ids(db'.person) :
    LET gone == {c.id : c \in RowsOf(db, "celebration", pid)}
    IN /\ \A t \in {"identity", "address", "celebration"} :
            db'[t] = db[t] \ RowsOf(db, t, pid)
       /\ db'.scheduledReminder =
            {r \in db.scheduledReminder : r.celebrationId \notin gone}
       /\ Ids(db'.eventGuest) = Ids(db.eventGuest)
       /\ \A g \in db.eventGuest : \E h \in db'.eventGuest :
            /\ h.id = g.id /\ h.eventId = g.eventId
            /\ h.personId = IF g.personId = pid THEN NULL ELSE g.personId

\* A pass loads rows of the store only: reminders whose celebration or event exists.
LoadsStoredStep ==
  (proc.pc = "idle" /\ proc'.pc = "loading") => proc'.loaded \subseteq db.scheduledReminder

\* The Notifier is handed only a reminder that is still in the store.
DeliversStoredStep ==
  (proc.pc = "deliver" /\ proc' # proc) => proc.batch[proc.i].id \in ReminderIds(db)

\* C21 as claimed: the cascade, the references, and no reminder of a deleted
\* person's celebration is processed, neither loaded nor handed to the Notifier.
C21_NoReminderAfterDelete ==
  [](ReferencesResolve(db)) /\ [][DeletePersonStep /\ LoadsStoredStep /\ DeliversStoredStep]_vars

\* C21: deleting a person removes its identities, addresses and celebrations
\* and the reminders of these celebrations, and nulls personId on its event
\* guests without removing one; every reference of the store resolves in every
\* state, and a pass only loads reminders whose celebration or event exists.
C21_DeleteCascades ==
  [](ReferencesResolve(db)) /\ [][DeletePersonStep /\ LoadsStoredStep]_vars

\* C21 witness: B was deleted while a pass held B's birthday reminders; c1 and
\* its reminders are gone, the guest row g2 is kept with personId null; the mark
\* of the first reminder found no row, and the second was handed to the Notifier
\* all the same.
C21_Witness ==
  /\ "B" \notin Ids(db.person)
  /\ "c1" \notin Ids(db.celebration)
  /\ ParentRows(db, "celebration", "c1") = {}
  /\ \E g \in db.eventGuest : g.id = "g2" /\ g.personId = NULL
  /\ proc.pc = "mark" /\ proc.i = 2 /\ proc.batch[2].id = 2
  /\ proc.count = 0 /\ proc.outcome = "ok" /\ attempts[2] = 1

\* The digits of a string, in their order.
DigitsOf(str) == SelectSeq(str, LAMBDA c : c \in DigitChars)

\* C22: normalizePhone returns "+" followed by the digits of its input in their
\* order, with "1" put before them exactly when there are ten of them; the
\* result is a function of the input's digit sequence.
C22_NormalizePhone ==
  ident.op = "normalize" =>
    LET digits == DigitsOf(ident.phone)
        r == ident.normalized
    IN /\ Len(r) >= 1 /\ r[1] = "+"
       /\ IF Len(digits) = 10
          THEN Len(r) = 12 /\ r[2] = "1" /\ SubSeq(r, 3, 12) = digits
          ELSE Tail(r) = digits

\* C22 witness: a string of ten digits and a hyphen was normalized to "+1" and
\* its ten digits.
C22_Witness ==
  /\ ident.op = "normalize"
  /\ Len(ident.phone) = 11 /\ ident.phone[4] = "-" /\ ident.phone[1] = "5"
  /\ Len(ident.normalized) = 12
  /\ SubSeq(ident.normalized, 1, 3) = <<"+", "1", "5">>

\* C23 as claimed: in one hour window a user passes the rate-limit check at
\* most InvitesPerHour times (the log counts the passes) and at most
\* InvitesPerHour guests are created, whatever requests are in flight together.
C23_InviteLimit ==
  /\ \A l \in db.rateLimitLog : l.count <= InvitesPerHour
  /\ \A w \in Windows : inv.created[w] <= InvitesPerHour

\* ---------------------------------------------------------------------------
\* Login rate limit (plugins/rate-limit: checkLoginRateLimit, recordFailedLogin;
\* routes/auth: POST /login). The clock of this part counts minutes; all
\* requests come from one client IP, so ipRateLimits holds at most one entry.
\* ---------------------------------------------------------------------------

LoginAttemptsPerHour == 10

LoginLockoutMinutes == 15

\* getHourWindow(): the current time with minutes, seconds and ms set to zero.
getHourWindow(t) == (t \div 60) * 60

SetLogin(r, rec) == [login EXCEPT !.req[r] = rec]

\* entry?.lockedUntil && now < entry.lockedUntil
LockedOut(e, t) == e.present /\ e.lockedUntil # 0 /\ t < e.lockedUntil

\* entry && entry.windowStart === windowStart && entry.count >= loginAttemptsPerHour
WindowFull(e, t) ==
  e.present /\ e.windowStart = getHourWindow(t) /\ e.count >= LoginAttemptsPerHour

\* POST /login up to its first await: checkLoginRateLimit answers 429 while the
\* IP is locked out, starts a lockout and answers 429 when the current window
\* is full, and lets the request on to the credential check otherwise.
LoginCheck(r, valid) ==
  /\ login.req[r].pc = "idle"
  /\ LET e == login.entry
         t == login.clock
     IN  IF LockedOut(e, t)
         THEN login' = SetLogin(r, [pc |-> "replied", valid |-> valid, status |-> 429])
         ELSE IF WindowFull(e, t)
         THEN login' = [login EXCEPT
                          !.entry.lockedUntil = t + LoginLockoutMinutes,
                          !.lockedAt = t,
                          !.req[r] = [pc |-> "replied", valid |-> valid, status |-> 429]]
         ELSE login' = SetLogin(r, [pc |-> "verify", valid |-> valid, status |-> 0])
  /\ UNCHANGED <<db, merge, dup, ident, occ, inv, parked, schedVars>>

\* recordFailedLogin: count++ in the window of the entry, a fresh entry
\* {count: 1, windowStart} otherwise (the fresh entry has no lockedUntil).
recordFailedLogin(e, t) ==
  IF e.present /\ e.windowStart = getHourWindow(t)
  THEN [e EXCEPT !.count = @ + 1]
  ELSE [present |-> TRUE, count |-> 1, windowStart |-> getHourWindow(t), lockedUntil |-> 0]

\* POST /login after the user lookup and the password comparison: wrong
\* credentials are recorded and answered 401, right ones are answered 200.
LoginVerify(r) ==
  /\ login.req[r].pc = "verify"
  /\ IF login.req[r].valid
     THEN login' = SetLogin(r, [login.req[r] EXCEPT !.pc = "replied", !.status = 200])
     ELSE login' = [login EXCEPT
                      !.entry = recordFailedLogin(login.entry, login.clock),
                      !.failed = IF @ > LoginAttemptsPerHour THEN @ ELSE @ + 1,
                      !.req[r] = [@ EXCEPT !.pc = "replied", !.status = 401]]
  /\ UNCHANGED <<db, merge, dup, ident, occ, inv, parked, schedVars>>

LoginReturn(r) ==
  /\ login.req[r].pc = "replied"
  /\ login' = SetLogin(r, LoginIdle)
  /\ UNCHANGED <<db, merge, dup, ident, occ, inv, parked, schedVars>>

\* The setInterval job: an entry whose window started more than two hours ago
\* is removed.
LoginCleanup ==
  /\ login.entry.present
  /\ login.clock - login.entry.windowStart > 2 * 60
  /\ login' = [login EXCEPT !.entry = NoEntry]
  /\ UNCHANGED <<db, merge, dup, ident, occ, inv, parked, schedVars>>

LoginTimes == {0, 59, 61, 70, 80, 190}

LoginTick(t) ==
  /\ t > login.clock
  /\ login' = [login EXCEPT !.clock = t]
  /\ UNCHANGED <<db, merge, dup, ident, occ, inv, parked, schedVars>>

InitLogin ==
  /\ db = SeedStore
  /\ merge = MergeIdle
  /\ dup = DupNone
  /\ ident = IdentNone
  /\ occ = OccNone
  /\ inv = InvNone
  /\ login = LoginNone
  /\ parked = ParkedNone
  /\ notified = {}
  /\ sched = SchedIdle
  /\ proc = ProcIdle
  /\ now = 0
  /\ nextId = 1
  /\ attempts = [i \in {} |-> 0]

NextLogin ==
  \/ \E r \in Requests, valid \in BOOLEAN : LoginCheck(r, valid)
  \/ \E r \in Requests : LoginVerify(r)
  \/ \E r \in Requests : LoginReturn(r)
  \/ LoginCleanup
  \/ \E t \in LoginTimes : LoginTick(t)

SpecLogin == InitLogin /\ [][NextLogin]_vars

\* C24: once ten failed login attempts of the client IP have been recorded,
\* the next login attempt is answered 429 before its credentials are checked,
\* and while a lockout started less than LoginLockoutMinutes ago every
\* attempt is answered 429 as well.
LoginAttemptStep(r) == login.req[r].pc = "idle" /\ login'.req[r].pc # "idle"

Rejected(r) ==
  /\ login'.req[r].pc = "replied"
  /\ login'.req[r].status = 429
  /\ login'.failed = login.failed

C24_LoginLockout ==
  [][\A r \in Requests :
       LoginAttemptStep(r) =>
         /\ (login.failed >= LoginAttemptsPerHour /\ login.lockedAt = NeverLocked)
              => Rejected(r)
         /\ (login.lockedAt # NeverLocked
              /\ login.clock < login.lockedAt + LoginLockoutMinutes)
              => Rejected(r)]_vars

\* C25: no step of a mergePeople call destroys the survivor: when Person
\* person1Id exists before the step it exists after it with every Identity,
\* Address and Celebration it had, and a call with person1Id = person2Id
\* changes nothing in the store.
SurvivorKept(d, e, p) ==
  p \in Ids(d.person) =>
    /\ p \in Ids(e.person)
    /\ {r \in d.identity : r.personId = p} \subseteq e.identity
    /\ {r \in d.address : r.personId = p} \subseteq e.address
    /\ {r \in d.celebration : r.personId = p} \subseteq e.celebration

MergeCallStep == merge.pc # "idle" /\ merge' # merge

C25_SurvivorKept ==
  [][MergeCallStep =>
       /\ SurvivorKept(db, db', merge.person1Id)
       /\ (merge.person1Id = merge.person2Id => db' = db)]_vars

\* C26: processDueReminders hands a reminder of a celebration to the Notifier
\* only for an instant of that celebration that was not notified and marked
\* sent before, also after scheduleCelebrationReminders has run again for the
\* celebration.
HandsOverStep == proc.pc = "deliver" /\ proc'.pc = "mark"

C26_NoRenotify ==
  [][HandsOverStep =>
       LET entry == proc.batch[proc.i]
       IN  entry.parent \in Ids(db.event)
             \/ <<entry.parent, entry.scheduledFor>> \notin notified]_vars

\* ---------------------------------------------------------------------------
\* Overlap: a second processDueReminders pass (the hourly cron job starts a
\* pass whether or not the previous one has returned; a second server process
\* does the same) and a second schedule*Reminders call (two requests in
\* flight). Both instances run the same code, so the model keeps the one that
\* is running in proc / sched and the one that waits at an await in parked; the
\* event loop resuming the other instance exchanges the two.
\* ---------------------------------------------------------------------------
PassSwitch ==
  /\ AtAwait
  /\ parked.proc # proc
  /\ proc' = parked.proc
  /\ parked' = [parked EXCEPT !.proc = proc]
  /\ UNCHANGED <<db, merge, dup, ident, occ, inv, login, sched, now, nextId, attempts,
                 notified>>

ScheduleSwitch ==
  /\ AtAwait
  /\ parked.sched # sched
  /\ sched' = parked.sched
  /\ parked' = [parked EXCEPT !.sched = sched]
  /\ UNCHANGED <<db, merge, dup, ident, occ, inv, login, proc, now, nextId, attempts,
                 notified>>

NextOverlap ==
  \/ \E offsets \in {<<0>>, <<1, 0>>} : ScheduleCelebrationCall("c1", 255, offsets)
  \/ ScheduleCreate
  \/ ScheduleReturn
  \/ ScheduleSwitch
  \/ ProcessStart
  \/ ProcessLoad
  \/ ProcessDeliver
  \/ ProcessMark
  \/ ProcessReturn
  \/ PassSwitch

SpecOverlap == InitDel /\ [][NextOverlap]_vars

\* C27: whatever passes overlap, no ScheduledReminder is handed to the
\* Notifier more than once.
C27_NoDoubleDelivery == \A id \in DOMAIN attempts : attempts[id] <= 1

\* C28: when a scheduleCelebrationReminders call has created its rows and no
\* other call for the celebration is still between its deleteMany and its
\* createMany, the celebration has exactly the rows this call created.
LastCreateStep ==
  /\ sched.pc = "deleted" /\ sched'.pc = "done"
  /\ sched.kind = "celebration"
  /\ ~(parked.sched.pc = "deleted" /\ parked.sched.parent = sched.parent)

C28_OneCallsRows ==
  [][LastCreateStep =>
       RemindersOfCelebration(db', sched.parent) = NewReminders]_vars

\* C29: a step of processDueReminders creates and deletes no ScheduledReminder
\* and leaves scheduledFor, celebrationId, eventId and userId of every row as
\* they are; it never takes sent back; it loads only rows that are unsent and
\* due, and changes only rows of its batch; and every sent row carries a
\* sentAt that is not before its scheduledFor.
SameRow(r, q) ==
  /\ q.id = r.id
  /\ q.scheduledFor = r.scheduledFor
  /\ q.celebrationId = r.celebrationId
  /\ q.eventId = r.eventId
  /\ q.userId = r.userId
  /\ (r.sent => q.sent)

ProcessFrameStep ==
  /\ ReminderIds(db') = ReminderIds(db)
  /\ \A r \in db.scheduledReminder :
       \E q \in db'.scheduledReminder :
         /\ SameRow(r, q)
         /\ q # r => (r.id \in BatchIds(proc) /\ proc.batch[proc.i].id = r.id)
  /\ proc'.loaded \subseteq UnsentDue(db, now)
  /\ \A k \in DOMAIN proc'.batch :
       \/ k \in DOMAIN proc.batch /\ proc'.batch[k] = proc.batch[k]
       \/ \E r \in proc.loaded :
            r.id = proc'.batch[k].id /\ r.scheduledFor <= proc.now

SentRowsStamped ==
  \A r \in db.scheduledReminder : r.sent => r.sentAt >= r.scheduledFor

C29_ProcessFrame ==
  [](SentRowsStamped) /\ [][proc' # proc => ProcessFrameStep]_vars

C29_Witness ==
  /\ proc.pc = "done"
  /\ proc.count >= 1
  /\ \E r \in db.scheduledReminder :
       r.id = proc.handled /\ r.sent /\ r.sentAt > r.scheduledFor
  /\ \E r \in db.scheduledReminder : ~r.sent

\* C30: no two EventGuest rows of one event reference the same Person.
C30_OneGuestPerPerson ==
  \A g, h \in db.eventGuest :
    (g.eventId = h.eventId /\ g.personId = h.personId /\ g.personId # NULL)
      => g.id = h.id
====
